---- MODULE Spec2Model ----
(***************************************************************************)
(* The tool dispatcher of the text adventure (src/src/agent.rs) over the   *)
(* world model (src/src/model.rs): movement with on-demand location        *)
(* generation, the item operations and the turn-based combat engine; the   *)
(* two turn orchestrators, Agent::process_action (src/src/agent.rs) and    *)
(* Game::handle_game_input (src/src/game.rs); and the completeness scan of *)
(* structured output (src/src/llm.rs).                                     *)
(*                                                                         *)
(* Conventions.  Option<T> is a sequence of length at most one: None is    *)
(* <<>> and Some(x) is <<x>>.  A HashMap is a function whose DOMAIN is the *)
(* set of its keys.  A tool-call payload (the JSON argument string) is a   *)
(* record of the fields it carries; a payload that serde_json cannot parse *)
(* is the record Unparseable; a field that is absent, or present with the  *)
(* wrong JSON type, is a field the record does not have.  Every executor   *)
(* is an operator from the world before the call to a Result: the record   *)
(* [ok, world], where world is the world after the call.                   *)
(*                                                                         *)
(* Not modelled: Player.money, Location.cached_image_path and              *)
(* Location.image_prompt, Item.name / description / value / weight /       *)
(* carryable / status_effects, Actor.name / description / money,           *)
(* WorldState.max_items and the debug log.  No dispatcher operation        *)
(* reads them.  Coordinates stay far from the i32 limits and defenses far *)
(* from the u32 limit, so the additions on them do not overflow.           *)
(***************************************************************************)
EXTENDS Integers, Sequences, FiniteSets, TLC

VARIABLES
    world,           \* Agent.world : WorldState
    turn_narrative,  \* Agent.turn_narrative : Option<String>
    calls,           \* number of tool calls dispatched so far
    budget,          \* number of tool calls the explored session holds
    last,            \* the most recent tool call: name, payload, outcome, and
                     \* the position it was made from
    turn,            \* Agent::process_action: where the turn in flight stands
    game             \* Game: state, last_narrative and the retry loop of
                     \* handle_game_input

vars == <<world, turn_narrative, calls, budget, last, turn, game>>

\* Tool calls per explored session: of any tool, of movement, of combat from a
\* fresh world, and of combat resumed from a saved world.
MaxCalls == 3

MaxMoveCalls == 4

MaxCombatCalls == 4

MaxSavedCalls == 3

\* ------------------------------------------------------------------------
\* Option, HashMap and Vec helpers
\* ------------------------------------------------------------------------
None == <<>>

Some(x) == <<x>>

\* HashMap::insert
Put(m, k, v) == [x \in (DOMAIN m) \cup {k} |-> IF x = k THEN v ELSE m[x]]

\* HashMap::remove
Del(m, k) == [x \in (DOMAIN m) \ {k} |-> m[x]]

\* Vec::contains
Contains(s, e) == \E i \in 1..Len(s) : s[i] = e

\* Vec::retain(|id| id not in drop)
RECURSIVE Without(_, _)
Without(s, drop) ==
    IF s = <<>> THEN <<>>
    ELSE IF Head(s) \in drop THEN Without(Tail(s), drop)
    ELSE <<Head(s)>> \o Without(Tail(s), drop)

\* Iterator::position
RECURSIVE PositionFrom(_, _, _)
PositionFrom(s, id, i) ==
    IF i > Len(s) THEN 0
    ELSE IF s[i].id = id THEN i
    ELSE PositionFrom(s, id, i + 1)

\* 1-based index of the first combatant with this id, 0 if there is none.
Position(s, id) == PositionFrom(s, id, 1)

\* ------------------------------------------------------------------------
\* Payloads and results
\* ------------------------------------------------------------------------
Unparseable == [unparseable |-> TRUE]

\* A JSON object that has none of the fields an executor looks for.
EmptyObject == [unused |-> TRUE]

\* serde_json::from_str(arguments)? fails
IsUnparseable(args) == "unparseable" \in DOMAIN args

\* args["f"].as_str() is Some
Has(args, f) == f \in DOMAIN args

Ok(w) == [ok |-> TRUE, world |-> w]

Err(w) == [ok |-> FALSE, world |-> w]

\* ------------------------------------------------------------------------
\* Worlds the agent is constructed with
\* ------------------------------------------------------------------------
DefaultCombat ==
    [active |-> FALSE, combatants |-> <<>>, current_turn_index |-> 0, round_number |-> 0]

max_combatants == 4

\* WorldState::new()
NewWorld ==
    [current_pos |-> <<0, 0>>,
     locations |-> <<>>,
     actors |-> <<>>,
     items |-> <<>>,
     player |-> [inventory |-> <<>>],
     combat |-> DefaultCombat,
     max_combatants |-> max_combatants]

StartLocation ==
    [name |-> "The Beginning",
     description |-> "You stand in a void of potential. Anything can happen here.",
     items |-> <<>>, actors |-> <<>>, exits |-> <<>>, visited |-> TRUE]

\* The world Game::handle_naming_input creates for a new game.
NewGameWorld == [NewWorld EXCEPT !.locations = Put(<<>>, <<0, 0>>, StartLocation)]

\* ------------------------------------------------------------------------
\* Movement and the world generator
\* ------------------------------------------------------------------------
Directions == {"north", "south", "east", "west"}

get_opposite_direction(direction) ==
    CASE direction = "north" -> "south"
      [] direction = "south" -> "north"
      [] direction = "east" -> "west"
      [] direction = "west" -> "east"
      [] OTHER -> direction

\* The match with the south arm copied from the north arm.
TargetPosSouthAsNorth(pos, direction) ==
    CASE direction = "north" -> Some(<<pos[1], pos[2] + 1>>)
      [] direction = "south" -> Some(<<pos[1], pos[2] + 1>>)
      [] direction = "east" -> Some(<<pos[1] + 1, pos[2]>>)
      [] direction = "west" -> Some(<<pos[1] - 1, pos[2]>>)
      [] OTHER -> None

\* The match on the direction in execute_move_to: Some(target) or None.
TargetPos(pos, direction) ==
    CASE direction = "north" -> Some(<<pos[1], pos[2] + 1>>)
      [] direction = "south" -> Some(<<pos[1], pos[2] - 1>>)
      [] direction = "east" -> Some(<<pos[1] + 1, pos[2]>>)
      [] direction = "west" -> Some(<<pos[1] - 1, pos[2]>>)
      [] OTHER -> None

\* format!("Mysterious area ({}, {})", x, y)
FallbackName(pos) ==
    "Mysterious area (" \o ToString(pos[1]) \o ", " \o ToString(pos[2]) \o ")"

FallbackLocation(target_pos) ==
    [name |-> FallbackName(target_pos),
     description |-> "A mysterious place that appeared suddenly.",
     items |-> <<>>, actors |-> <<>>, exits |-> <<>>, visited |-> TRUE]

\* The exits objects a generated location is decoded with: the field absent,
\* all four null as the prompt asks, and one that names a coordinate.
AllNullExits == [d \in Directions |-> None]

GeneratedExits == {<<>>, AllNullExits, [east |-> Some(<<2, 0>>), west |-> None]}

\* LlmClient::parse_location_json on a complete, decodable object: the decoded
\* Location with visited forced to false.
ParsedLocation(exits) ==
    [name |-> "Forest Path",
     description |-> "A narrow trail through dense woods.",
     items |-> <<>>, actors |-> <<>>, exits |-> exits, visited |-> FALSE]

\* LlmClient::generate_location: Err on a transport error, a timeout or an
\* incomplete or undecodable text, else Ok(location).
GenerationOutcomes ==
    {[ok |-> FALSE]} \cup {[ok |-> TRUE, location |-> ParsedLocation(e)] : e \in GeneratedExits}

\* The location execute_move_to inserts at the target: the generated one marked
\* visited, or the fallback when generation failed.
NewLocation(gen, target_pos) ==
    IF gen.ok THEN [gen.location EXCEPT !.visited = TRUE]
    ELSE FallbackLocation(target_pos)

\* The linking with the back link stored under the travel direction.
InsertAndLinkBackUnderDirection(w, target_pos, location, direction, opposite) ==
    LET inserted == Put(w.locations, target_pos, location)
        linked == [inserted EXCEPT ![w.current_pos].exits =
                       Put(@, direction, Some(target_pos))]
        back == [linked EXCEPT ![target_pos].exits =
                     Put(@, direction, Some(w.current_pos))]
    IN  [w EXCEPT !.locations = back]

\* locations.insert(target_pos, location), then the two exits.insert calls.
InsertAndLink(w, target_pos, location, direction, opposite) ==
    LET inserted == Put(w.locations, target_pos, location)
        linked == IF w.current_pos \in DOMAIN inserted
                  THEN [inserted EXCEPT ![w.current_pos].exits =
                            Put(@, direction, Some(target_pos))]
                  ELSE inserted
        back == IF target_pos \in DOMAIN linked
                THEN [linked EXCEPT ![target_pos].exits =
                          Put(@, opposite, Some(w.current_pos))]
                ELSE linked
    IN  [w EXCEPT !.locations = back]

\* The arrival without the assignment to current_pos.
ArriveWithoutMoving(w, target_pos) ==
    [w EXCEPT !.locations = IF target_pos \in DOMAIN w.locations
                            THEN [w.locations EXCEPT ![target_pos].visited = TRUE]
                            ELSE w.locations]

\* current_pos = target_pos, and the location there, if any, becomes visited.
Arrive(w, target_pos) ==
    [w EXCEPT !.current_pos = target_pos,
              !.locations = IF target_pos \in DOMAIN w.locations
                            THEN [w.locations EXCEPT ![target_pos].visited = TRUE]
                            ELSE w.locations]

ExecuteMoveTo(w, args, gen) ==
    IF IsUnparseable(args) \/ ~Has(args, "direction") THEN Err(w)
    ELSE LET direction == args.direction
             target == TargetPos(w.current_pos, direction)
         IN  IF target = None THEN Err(w)
             ELSE LET target_pos == target[1]
                      opposite == get_opposite_direction(direction)
                  IN  IF target_pos \notin DOMAIN w.locations
                      THEN IF w.current_pos \notin DOMAIN w.locations THEN Err(w)
                           ELSE Ok(Arrive(InsertAndLink(w, target_pos,
                                                        NewLocation(gen, target_pos),
                                                        direction, opposite),
                                          target_pos))
                      ELSE Ok(Arrive(w, target_pos))

ExecuteUpdateLocationDescription(w, args) ==
    IF IsUnparseable(args) \/ ~Has(args, "text") THEN Err(w)
    ELSE IF w.current_pos \in DOMAIN w.locations
         THEN Ok([w EXCEPT !.locations[w.current_pos].description = args.text])
         ELSE Err(w)

\* generate_turn_narrative leaves the world alone; the action sets turn_narrative.
ExecuteGenerateTurnNarrative(w, args) ==
    IF IsUnparseable(args) \/ ~Has(args, "text") THEN Err(w) ELSE Ok(w)

\* ------------------------------------------------------------------------
\* Items
\* ------------------------------------------------------------------------
\* `as u32` on a decoded u64.  The payloads explored carry numbers below 2^32,
\* on which the cast is the identity.
U32(n) == n

Normal == [tag |-> "Normal"]

Equipped == [tag |-> "Equipped"]

Consumed(charges, max_charges) ==
    [tag |-> "Consumed", charges |-> charges, max_charges |-> max_charges]

Damaged(durability, max_durability) ==
    [tag |-> "Damaged", durability |-> durability, max_durability |-> max_durability]

Open(contents) == [tag |-> "Open", contents |-> contents]

ItemTypes ==
    {"Weapon", "Armor", "Consumable", "Tool", "Key", "Container", "QuestItem", "Material"}

\* ItemProperties::default()
DefaultProperties ==
    [damage |-> None, defense |-> None, usable |-> FALSE, equip_slot |-> None]

\* obj["f"].as_u64().unwrap_or(d) as u32
U64Or(obj, f, d) == IF Has(obj, f) THEN U32(obj[f]) ELSE d

\* The state of a created item.  A JSON string is the record [str |-> s]; a JSON
\* object is the record of its keys.
DecodeState(args) ==
    IF ~Has(args, "state") THEN Normal
    ELSE LET s == args.state
         IN  IF Has(s, "str")
             THEN IF s.str = "Equipped" THEN Equipped ELSE Normal
             ELSE IF Has(s, "Damaged")
             THEN Damaged(U64Or(s.Damaged, "durability", 10),
                          U64Or(s.Damaged, "max_durability", 10))
             ELSE IF Has(s, "Consumed")
             THEN Consumed(U64Or(s.Consumed, "charges", 1),
                           U64Or(s.Consumed, "max_charges", 1))
             ELSE Normal

DecodeProperties(args) ==
    IF ~Has(args, "properties") THEN DefaultProperties
    ELSE LET p == args.properties
         IN  [damage |-> IF Has(p, "damage") THEN Some(U32(p.damage)) ELSE None,
              defense |-> IF Has(p, "defense") THEN Some(U32(p.defense)) ELSE None,
              usable |-> IF Has(p, "usable") THEN p.usable ELSE FALSE,
              equip_slot |-> IF Has(p, "equip_slot") THEN Some(p.equip_slot) ELSE None]

\* A creation that replaces an entry already registered under the id.
ExecuteCreateItemOverwriting(w, args) ==
    IF IsUnparseable(args) \/ ~Has(args, "id") THEN Err(w)
    ELSE IF ~Has(args, "item_type") THEN Err(w)
    ELSE IF args.item_type \notin ItemTypes THEN Err(w)
    ELSE Ok([w EXCEPT !.items =
                 Put(@, args.id, [id |-> args.id,
                                  item_type |-> args.item_type,
                                  state |-> DecodeState(args),
                                  properties |-> DecodeProperties(args)])])

ExecuteCreateItem(w, args) ==
    IF IsUnparseable(args) \/ ~Has(args, "id") THEN Err(w)
    ELSE IF args.id \in DOMAIN w.items THEN Err(w)
    ELSE IF ~Has(args, "item_type") THEN Err(w)
    ELSE IF args.item_type \notin ItemTypes THEN Err(w)
    ELSE Ok([w EXCEPT !.items =
                 Put(@, args.id, [id |-> args.id,
                                  item_type |-> args.item_type,
                                  state |-> DecodeState(args),
                                  properties |-> DecodeProperties(args)])])

ExecuteAddItemToInventory(w, args) ==
    IF IsUnparseable(args) \/ ~Has(args, "item_id") THEN Err(w)
    ELSE IF ~Contains(w.player.inventory, args.item_id)
         THEN Ok([w EXCEPT !.player.inventory = Append(@, args.item_id)])
         ELSE Ok(w)

ExecuteRemoveItemFromInventory(w, args) ==
    IF IsUnparseable(args) \/ ~Has(args, "item_id") THEN Err(w)
    ELSE Ok([w EXCEPT !.player.inventory = Without(@, {args.item_id})])

ExecuteAddItemToLocation(w, args) ==
    IF IsUnparseable(args) \/ ~Has(args, "item_id") THEN Err(w)
    ELSE IF w.current_pos \in DOMAIN w.locations
         THEN IF ~Contains(w.locations[w.current_pos].items, args.item_id)
              THEN Ok([w EXCEPT !.locations[w.current_pos].items = Append(@, args.item_id)])
              ELSE Ok(w)
         ELSE Err(w)

ExecuteRemoveItemFromLocation(w, args) ==
    IF IsUnparseable(args) \/ ~Has(args, "item_id") THEN Err(w)
    ELSE IF w.current_pos \in DOMAIN w.locations
         THEN Ok([w EXCEPT !.locations[w.current_pos].items = Without(@, {args.item_id})])
         ELSE Err(w)

\* The charge rule that takes the last charge and keeps the item in the inventory.
ConsumeChargeToZero(w, item_id) ==
    LET state == w.items[item_id].state
    IN  IF state.tag = "Consumed" /\ state.charges >= 1
        THEN [w EXCEPT !.items[item_id].state = Consumed(state.charges - 1, state.max_charges)]
        ELSE IF state.tag = "Consumed"
        THEN [w EXCEPT !.player.inventory = Without(@, {item_id})]
        ELSE w

\* The charge rule shared by use_item and use_item_in_combat, on a usable item.
ConsumeCharge(w, item_id) ==
    LET state == w.items[item_id].state
    IN  IF state.tag = "Consumed" /\ state.charges > 1
        THEN [w EXCEPT !.items[item_id].state = Consumed(state.charges - 1, state.max_charges)]
        ELSE IF state.tag = "Consumed"
        THEN [w EXCEPT !.player.inventory = Without(@, {item_id})]
        ELSE w

ExecuteUseItem(w, args) ==
    IF IsUnparseable(args) \/ ~Has(args, "item_id") THEN Err(w)
    ELSE IF args.item_id \in DOMAIN w.items /\ w.items[args.item_id].properties.usable
         THEN Ok(ConsumeCharge(w, args.item_id))
         ELSE Ok(w)

ExecuteEquipItem(w, args) ==
    IF IsUnparseable(args) \/ ~Has(args, "item_id") THEN Err(w)
    ELSE IF args.item_id \in DOMAIN w.items
            /\ w.items[args.item_id].properties.equip_slot # None
         THEN Ok([w EXCEPT !.items[args.item_id].state = Equipped])
         ELSE Ok(w)

ExecuteUnequipItem(w, args) ==
    IF IsUnparseable(args) \/ ~Has(args, "item_id") THEN Err(w)
    ELSE IF args.item_id \in DOMAIN w.items /\ w.items[args.item_id].state.tag = "Equipped"
         THEN Ok([w EXCEPT !.items[args.item_id].state = Normal])
         ELSE Ok(w)

\* for loc in locations.values_mut() { loc.items.retain(..) }
PurgeFromLocations(locations, drop) ==
    [pos \in DOMAIN locations |->
        [locations[pos] EXCEPT !.items = Without(@, drop)]]

\* A combination that also unregisters the two sources.
ExecuteCombineItemsConsuming(w, args) ==
    IF IsUnparseable(args) \/ ~Has(args, "item1_id") \/ ~Has(args, "item2_id")
       \/ ~Has(args, "result_id")
    THEN Err(w)
    ELSE LET drop == {args.item1_id, args.item2_id}
             purged == [w EXCEPT !.player.inventory = Without(@, drop),
                                 !.locations = PurgeFromLocations(@, drop),
                                 !.items = Del(Del(@, args.item1_id), args.item2_id)]
         IN  IF args.result_id \in DOMAIN w.items
             THEN Ok([purged EXCEPT !.player.inventory = Append(@, args.result_id)])
             ELSE Ok(purged)

ExecuteCombineItems(w, args) ==
    IF IsUnparseable(args) \/ ~Has(args, "item1_id") \/ ~Has(args, "item2_id")
       \/ ~Has(args, "result_id")
    THEN Err(w)
    ELSE LET drop == {args.item1_id, args.item2_id}
             purged == [w EXCEPT !.player.inventory = Without(@, drop),
                                 !.locations = PurgeFromLocations(@, drop)]
         IN  IF args.result_id \in DOMAIN w.items
             THEN Ok([purged EXCEPT !.player.inventory = Append(@, args.result_id)])
             ELSE Ok(purged)

ExecuteBreakItem(w, args) ==
    IF IsUnparseable(args) \/ ~Has(args, "item_id") THEN Err(w)
    ELSE Ok([w EXCEPT !.player.inventory = Without(@, {args.item_id}),
                      !.locations = PurgeFromLocations(@, {args.item_id}),
                      !.items = Del(@, args.item_id)])

ExecuteAddItemToContainer(w, args) ==
    IF IsUnparseable(args) \/ ~Has(args, "container_id") \/ ~Has(args, "item_id") THEN Err(w)
    ELSE IF args.container_id \in DOMAIN w.items
            /\ w.items[args.container_id].state.tag = "Open"
         THEN Ok([w EXCEPT !.items[args.container_id].state.contents =
                      Append(@, args.item_id)])
         ELSE Ok(w)

ExecuteRemoveItemFromContainer(w, args) ==
    IF IsUnparseable(args) \/ ~Has(args, "container_id") \/ ~Has(args, "item_id") THEN Err(w)
    ELSE IF args.container_id \in DOMAIN w.items
            /\ w.items[args.container_id].state.tag = "Open"
         THEN Ok([w EXCEPT !.items[args.container_id].state.contents =
                      Without(@, {args.item_id})])
         ELSE Ok(w)

ExecuteInspectObject(w, args) ==
    IF IsUnparseable(args) \/ ~Has(args, "object_id") THEN Err(w)
    ELSE IF args.object_id \in DOMAIN w.items \/ args.object_id \in DOMAIN w.actors
         THEN Ok(w)
         ELSE Err(w)

\* ------------------------------------------------------------------------
\* Combat
\* ------------------------------------------------------------------------
\* A panic!: the process aborts inside the call.
Panic(w) == [ok |-> FALSE, panic |-> TRUE, world |-> w]

\* u32::saturating_sub
SaturatingSub(a, b) == IF a > b THEN a - b ELSE 0

\* rand::random::<u32>() % 20 + 1
Initiative(random) == (random % 20) + 1

\* The combatant that takes the equipped armor of the registry with it.
NewCombatantArmored(id, is_player, hp, random) ==
    [id |-> id, is_player |-> is_player, hp |-> hp, max_hp |-> hp,
     weapon_id |-> None, armor_id |-> Some("shield"),
     initiative |-> Initiative(random),
     status_effects |-> <<>>, temp_defense |-> 0]

NewCombatant(id, is_player, hp, random) ==
    [id |-> id, is_player |-> is_player, hp |-> hp, max_hp |-> hp,
     weapon_id |-> None, armor_id |-> None,
     initiative |-> Initiative(random),
     status_effects |-> <<>>, temp_defense |-> 0]

\* The loop over enemy_ids of execute_start_combat, from element i on, with the
\* combatants pushed so far; each push draws the next random number.  An element
\* is [str |-> id] for a JSON string and a record without str otherwise.
\* Yields [ok, combatants].
RECURSIVE PushEnemies(_, _, _, _, _)
PushEnemies(w, enemy_ids, i, randoms, combatants) ==
    IF i > Len(enemy_ids) THEN [ok |-> TRUE, combatants |-> combatants]
    ELSE IF ~Has(enemy_ids[i], "str") THEN [ok |-> FALSE, combatants |-> combatants]
    ELSE LET enemy_id == enemy_ids[i].str
         IN  IF enemy_id \in DOMAIN w.actors
             THEN IF w.actors[enemy_id].current_pos # w.current_pos
                  THEN [ok |-> FALSE, combatants |-> combatants]
                  ELSE PushEnemies(w, enemy_ids, i + 1, randoms,
                                   Append(combatants,
                                          NewCombatant(enemy_id, FALSE, 50,
                                                       randoms[Len(combatants) + 1])))
             ELSE PushEnemies(w, enemy_ids, i + 1, randoms, combatants)

\* The sort step that puts c before the elements of equal initiative.
RECURSIVE InsertBeforeEqual(_, _)
InsertBeforeEqual(sorted, c) ==
    IF sorted = <<>> THEN <<c>>
    ELSE IF Head(sorted).initiative > c.initiative
         THEN <<Head(sorted)>> \o InsertBeforeEqual(Tail(sorted), c)
         ELSE <<c>> \o sorted

\* One step of the stable sort: c goes after every element whose initiative is
\* at least its own.
RECURSIVE InsertByInitiative(_, _)
InsertByInitiative(sorted, c) ==
    IF sorted = <<>> THEN <<c>>
    ELSE IF Head(sorted).initiative >= c.initiative
         THEN <<Head(sorted)>> \o InsertByInitiative(Tail(sorted), c)
         ELSE <<c>> \o sorted

\* combatants.sort_by(|a, b| b.initiative.cmp(&a.initiative)): stable, descending
RECURSIVE SortByInitiative(_)
SortByInitiative(combatants) ==
    IF combatants = <<>> THEN <<>>
    ELSE InsertByInitiative(SortByInitiative(SubSeq(combatants, 1, Len(combatants) - 1)),
                            combatants[Len(combatants)])

\* The cap check with the player left out of the count.
TooManyCombatantsEnemiesOnly(w, enemy_ids) == Len(enemy_ids) > w.max_combatants

\* total_combatants > self.world.max_combatants
TooManyCombatants(w, enemy_ids) == 1 + Len(enemy_ids) > w.max_combatants

ExecuteStartCombat(w, args, randoms) ==
    IF IsUnparseable(args) \/ ~Has(args, "enemy_ids") THEN Err(w)
    ELSE IF w.combat.active THEN Err(w)
    ELSE IF TooManyCombatants(w, args.enemy_ids) THEN Err(w)
    ELSE LET pushed == PushEnemies(w, args.enemy_ids, 1, randoms,
                                   <<NewCombatant("player", TRUE, 100, randoms[1])>>)
         IN  IF ~pushed.ok THEN Err(w)
             ELSE Ok([w EXCEPT !.combat =
                          [active |-> TRUE,
                           combatants |-> SortByInitiative(pushed.combatants),
                           current_turn_index |-> 0,
                           round_number |-> 1]])

\* items.get(id).and_then(|i| i.properties.<field>) on an Option id
ItemProperty(w, id_opt, field) ==
    IF id_opt # None /\ id_opt[1] \in DOMAIN w.items
    THEN w.items[id_opt[1]].properties[field]
    ELSE None

UnwrapOr(opt, default) == IF opt = None THEN default ELSE opt[1]

WeaponDamage(w, args) ==
    IF Has(args, "weapon_id")
    THEN UnwrapOr(ItemProperty(w, Some(args.weapon_id), "damage"), 5)
    ELSE 5

\* The damage without the floor of 1.
FinalDamageNoFloor(weapon_damage, armor_defense, temp_defense) ==
    SaturatingSub(weapon_damage, armor_defense + temp_defense)

FinalDamage(weapon_damage, armor_defense, temp_defense) ==
    LET total_defense == armor_defense + temp_defense
        damage == SaturatingSub(weapon_damage, total_defense)
    IN  IF damage = 0 THEN 1 ELSE damage

ExecuteAttackActor(w, args) ==
    IF IsUnparseable(args) \/ ~Has(args, "attacker_id") \/ ~Has(args, "target_id") THEN Err(w)
    ELSE IF ~w.combat.active THEN Err(w)
    ELSE IF Position(w.combat.combatants, args.attacker_id) = 0 THEN Err(w)
    ELSE IF Position(w.combat.combatants, args.target_id) = 0 THEN Err(w)
    ELSE LET target_idx == Position(w.combat.combatants, args.target_id)
             target == w.combat.combatants[target_idx]
             armor_defense == UnwrapOr(ItemProperty(w, target.armor_id, "defense"), 0)
             final_damage == FinalDamage(WeaponDamage(w, args), armor_defense,
                                         target.temp_defense)
         IN  Ok([w EXCEPT !.combat.combatants[target_idx].hp =
                     SaturatingSub(@, final_damage)])

ExecuteDefend(w, args) ==
    IF IsUnparseable(args) \/ ~Has(args, "actor_id") THEN Err(w)
    ELSE IF ~w.combat.active THEN Err(w)
    ELSE IF Position(w.combat.combatants, args.actor_id) = 0 THEN Err(w)
    ELSE Ok([w EXCEPT !.combat.combatants[Position(w.combat.combatants, args.actor_id)]
                          .temp_defense = @ + 5])

\* combatants.retain(|c| keep(c))
RECURSIVE RetainOthers(_, _)
RetainOthers(combatants, actor_id) ==
    IF combatants = <<>> THEN <<>>
    ELSE IF Head(combatants).id # actor_id
         THEN <<Head(combatants)>> \o RetainOthers(Tail(combatants), actor_id)
         ELSE RetainOthers(Tail(combatants), actor_id)

RECURSIVE RetainAlive(_)
RetainAlive(combatants) ==
    IF combatants = <<>> THEN <<>>
    ELSE IF Head(combatants).hp > 0
         THEN <<Head(combatants)>> \o RetainAlive(Tail(combatants))
         ELSE RetainAlive(Tail(combatants))

AnyPlayer(combatants) == \E i \in 1..Len(combatants) : combatants[i].is_player

AnyEnemy(combatants) == \E i \in 1..Len(combatants) : ~combatants[i].is_player

\* The success branch of execute_flee.
FleeSuccess(w, actor_id) ==
    LET remaining == RetainOthers(w.combat.combatants, actor_id)
    IN  [w EXCEPT !.combat.combatants = remaining,
                  !.combat.active = IF ~AnyPlayer(remaining) \/ ~AnyEnemy(remaining)
                                    THEN FALSE ELSE @]

ExecuteFlee(w, args, random) ==
    IF IsUnparseable(args) \/ ~Has(args, "actor_id") THEN Err(w)
    ELSE IF ~w.combat.active THEN Err(w)
    ELSE LET roll == random % 20
         IN  IF roll >= 10 THEN Ok(FleeSuccess(w, args.actor_id)) ELSE Ok(w)

\* The use of an item in combat with the charge taken before the user is looked
\* up among the combatants.
ExecuteUseItemInCombatChargeFirst(w, args) ==
    IF IsUnparseable(args) \/ ~Has(args, "user_id") \/ ~Has(args, "item_id") THEN Err(w)
    ELSE IF ~w.combat.active THEN Err(w)
    ELSE IF ~Contains(w.player.inventory, args.item_id) THEN Err(w)
    ELSE IF args.item_id \notin DOMAIN w.items THEN Err(w)
    ELSE IF ~w.items[args.item_id].properties.usable THEN Err(w)
    ELSE LET used == ConsumeCharge(w, args.item_id)
             combatant_idx == Position(w.combat.combatants, args.user_id)
         IN  IF combatant_idx = 0 THEN Err(used)
             ELSE LET c == w.combat.combatants[combatant_idx]
                      healed == IF c.hp + 20 < c.max_hp THEN c.hp + 20 ELSE c.max_hp
                  IN  Ok([used EXCEPT !.combat.combatants[combatant_idx].hp = healed])

\* The heal without the cap at max_hp.
HealedUncapped(c) == c.hp + 20

\* (hp + heal_amount).min(max_hp)
Healed(c) == IF c.hp + 20 < c.max_hp THEN c.hp + 20 ELSE c.max_hp

ExecuteUseItemInCombat(w, args) ==
    IF IsUnparseable(args) \/ ~Has(args, "user_id") \/ ~Has(args, "item_id") THEN Err(w)
    ELSE IF ~w.combat.active THEN Err(w)
    ELSE IF Position(w.combat.combatants, args.user_id) = 0 THEN Err(w)
    ELSE IF ~Contains(w.player.inventory, args.item_id) THEN Err(w)
    ELSE IF args.item_id \notin DOMAIN w.items THEN Err(w)
    ELSE IF ~w.items[args.item_id].properties.usable THEN Err(w)
    ELSE LET combatant_idx == Position(w.combat.combatants, args.user_id)
             used == ConsumeCharge(w, args.item_id)
         IN  Ok([used EXCEPT !.combat.combatants[combatant_idx].hp =
                     Healed(w.combat.combatants[combatant_idx])])

\* 0u32 - 1 without overflow checks is u32::MAX; the largest
\* representable integer stands for it.
WrappedU32 == 2147483647

HasStunned(c) ==
    \E k \in 1..Len(c.status_effects) : c.status_effects[k].effect_type = "Stunned"

\* for effect in &mut status_effects { if effect.duration > 0 { effect.duration -= 1 } }
DecrementDurations(effects) ==
    [k \in 1..Len(effects) |->
        [effects[k] EXCEPT !.duration = IF @ > 0 THEN @ - 1 ELSE @]]

\* The reset that reaches only the head of the list.
ResetTempDefenseOfFirst(combatants) ==
    [k \in 1..Len(combatants) |->
        IF k = 1 THEN [combatants[k] EXCEPT !.temp_defense = 0] ELSE combatants[k]]

\* for combatant in &mut combatants { combatant.temp_defense = 0 }
ResetTempDefense(combatants) ==
    [k \in 1..Len(combatants) |-> [combatants[k] EXCEPT !.temp_defense = 0]]

\* The first while loop of execute_end_turn, from the 0-based index i: every
\* stunned combatant passed over has all its durations decremented.
\* Yields [combatants, index].
RECURSIVE SkipStunned(_, _)
SkipStunned(combatants, i) ==
    IF i < Len(combatants) /\ HasStunned(combatants[i + 1])
    THEN SkipStunned([combatants EXCEPT ![i + 1].status_effects = DecrementDurations(@)],
                     i + 1)
    ELSE [combatants |-> combatants, index |-> i]

\* The loop over one combatant's effects at a round wrap, from effect k on.
\* effect.duration - 1 on a zero duration overflows: a panic when the build
\* checks overflow, a wrap to u32::MAX otherwise.  Yields [hp, kept, panic].
RECURSIVE TickEffects(_, _, _, _, _)
TickEffects(hp, effects, k, kept, overflow_checks) ==
    IF k > Len(effects) THEN [hp |-> hp, kept |-> kept, panic |-> FALSE]
    ELSE LET effect == effects[k]
             remaining == IF effect.duration = 0 THEN WrappedU32 ELSE effect.duration - 1
             ticked == IF effect.effect_type \in {"Poison", "Burning"}
                       THEN IF hp > effect.severity THEN hp - effect.severity ELSE 0
                       ELSE hp
         IN  IF effect.duration = 0 /\ overflow_checks
             THEN [hp |-> hp, kept |-> kept, panic |-> TRUE]
             ELSE TickEffects(ticked, effects, k + 1,
                              IF remaining > 0
                              THEN Append(kept, [effect EXCEPT !.duration = remaining])
                              ELSE kept,
                              overflow_checks)

TickCombatant(c, overflow_checks) ==
    LET t == TickEffects(c.hp, c.status_effects, 1, <<>>, overflow_checks)
    IN  [combatant |-> [c EXCEPT !.hp = t.hp, !.status_effects = t.kept],
         panic |-> t.panic]

\* The second while loop: the first combatant without Stunned, or 0.
RECURSIVE FirstNotStunned(_, _)
FirstNotStunned(combatants, i) ==
    IF i < Len(combatants) /\ HasStunned(combatants[i + 1])
    THEN FirstNotStunned(combatants, i + 1)
    ELSE IF i >= Len(combatants) THEN 0 ELSE i

\* The branch of execute_end_turn taken when the turn index runs off the list.
RoundWrap(w, combatants, overflow_checks) ==
    LET ticks == [k \in 1..Len(combatants) |-> TickCombatant(combatants[k], overflow_checks)]
        ticked == [k \in 1..Len(combatants) |-> ticks[k].combatant]
        alive == RetainAlive(ticked)
        wrapped == [w EXCEPT !.combat.round_number = @ + 1,
                             !.combat.combatants = alive]
    IN  IF \E k \in 1..Len(combatants) : ticks[k].panic THEN Panic(w)
        ELSE IF ~AnyPlayer(alive) \/ ~AnyEnemy(alive)
        THEN Ok([wrapped EXCEPT !.combat.active = FALSE])
        ELSE Ok([wrapped EXCEPT !.combat.current_turn_index = FirstNotStunned(alive, 0)])

\* The turn check that rejects only an actor that is not in the combat.
NotTurnOfAbsentOnly(w, actor_id) == Position(w.combat.combatants, actor_id) = 0

\* combatants.get(current_idx).map(|c| &c.id) != Some(&actor_id.to_string())
NotTurnOf(w, actor_id) ==
    \/ w.combat.current_turn_index >= Len(w.combat.combatants)
    \/ w.combat.combatants[w.combat.current_turn_index + 1].id # actor_id

ExecuteEndTurn(w, args, overflow_checks) ==
    IF IsUnparseable(args) \/ ~Has(args, "actor_id") THEN Err(w)
    ELSE IF ~w.combat.active THEN Err(w)
    ELSE LET current_idx == w.combat.current_turn_index
         IN  IF NotTurnOf(w, args.actor_id)
             THEN Err(w)
             ELSE LET skipped == SkipStunned(ResetTempDefense(w.combat.combatants),
                                             current_idx + 1)
                  IN  IF skipped.index >= Len(skipped.combatants)
                      THEN RoundWrap(w, skipped.combatants, overflow_checks)
                      ELSE Ok([w EXCEPT !.combat.combatants = skipped.combatants,
                                        !.combat.current_turn_index = skipped.index])

\* ------------------------------------------------------------------------
\* A world loaded from a save (SaveManager::load_save decodes any WorldState)
\* ------------------------------------------------------------------------
Actor(id, pos) ==
    [id |-> id, current_pos |-> pos,
     inventory |-> IF id = "goblin" THEN <<"shield">> ELSE <<>>]

Potion ==
    [id |-> "potion", item_type |-> "Consumable", state |-> Consumed(2, 2),
     properties |-> [DefaultProperties EXCEPT !.usable = TRUE]]

Sword ==
    [id |-> "sword", item_type |-> "Weapon", state |-> Normal,
     properties |-> [DefaultProperties EXCEPT !.damage = Some(50),
                                              !.equip_slot = Some("weapon")]]

Shield ==
    [id |-> "shield", item_type |-> "Armor", state |-> Equipped,
     properties |-> [DefaultProperties EXCEPT !.defense = Some(3),
                                              !.equip_slot = Some("offhand")]]

Chest ==
    [id |-> "chest", item_type |-> "Container", state |-> Open(<<>>),
     properties |-> DefaultProperties]

Herb ==
    [id |-> "herb", item_type |-> "Material", state |-> Normal,
     properties |-> [DefaultProperties EXCEPT !.usable = TRUE]]

SavedWorld ==
    [NewWorld EXCEPT
        !.locations = Put(<<>>, <<0, 0>>,
                          [StartLocation EXCEPT !.actors = <<"goblin", "orc", "troll">>,
                                                !.items = <<"chest">>]),
        !.actors = [id \in {"goblin", "orc", "troll", "wolf"} |->
                       Actor(id, IF id = "wolf" THEN <<3, 3>> ELSE <<0, 0>>)],
        !.items = [id \in {"potion", "sword", "shield", "chest", "herb"} |->
                      CASE id = "potion" -> Potion
                        [] id = "sword" -> Sword
                        [] id = "shield" -> Shield
                        [] id = "herb" -> Herb
                        [] OTHER -> Chest],
        !.player = [inventory |-> <<"potion", "sword", "herb">>]]

\* ------------------------------------------------------------------------
\* The dispatcher: Agent::execute_tool_call
\* ------------------------------------------------------------------------
NoCall ==
    [op |-> "none", args |-> EmptyObject, input |-> EmptyObject, result |-> "none",
     pos |-> <<0, 0>>]

Outcome(result) ==
    IF Has(result, "panic") THEN "panic" ELSE IF result.ok THEN "ok" ELSE "err"

\* What one tool call does to the agent.  input is what the call drew from
\* outside the world: the generation collaborator's answer or the random
\* numbers.  No call follows an abort of the process.
Resolve(name, args, input, result, narrative) ==
    /\ last.result # "panic"
    /\ world' = result.world
    /\ turn_narrative' = narrative
    /\ last' = [op |-> name, args |-> args, input |-> input,
                result |-> Outcome(result), pos |-> world.current_pos]

\* One tool call of a session that holds budget calls.
Dispatch(name, args, input, result, narrative) ==
    /\ calls < budget
    /\ calls' = calls + 1
    /\ budget' = budget
    /\ UNCHANGED <<turn, game>>
    /\ Resolve(name, args, input, result, narrative)

MoveTo(args, gen) ==
    Dispatch("move_to", args, gen, ExecuteMoveTo(world, args, gen), turn_narrative)

UpdateLocationDescription(args) ==
    Dispatch("update_location_description", args, EmptyObject,
             ExecuteUpdateLocationDescription(world, args), turn_narrative)

GenerateTurnNarrative(args) ==
    Dispatch("generate_turn_narrative", args, EmptyObject, ExecuteGenerateTurnNarrative(world, args),
             IF ExecuteGenerateTurnNarrative(world, args).ok
             THEN Some(args.text) ELSE turn_narrative)

CreateItem(args) ==
    Dispatch("create_item", args, EmptyObject, ExecuteCreateItem(world, args), turn_narrative)

AddItemToInventory(args) ==
    Dispatch("add_item_to_inventory", args, EmptyObject, ExecuteAddItemToInventory(world, args),
             turn_narrative)

RemoveItemFromInventory(args) ==
    Dispatch("remove_item_from_inventory", args, EmptyObject,
             ExecuteRemoveItemFromInventory(world, args), turn_narrative)

AddItemToLocation(args) ==
    Dispatch("add_item_to_location", args, EmptyObject, ExecuteAddItemToLocation(world, args),
             turn_narrative)

RemoveItemFromLocation(args) ==
    Dispatch("remove_item_from_location", args, EmptyObject,
             ExecuteRemoveItemFromLocation(world, args), turn_narrative)

UseItem(args) ==
    Dispatch("use_item", args, EmptyObject, ExecuteUseItem(world, args), turn_narrative)

EquipItem(args) ==
    Dispatch("equip_item", args, EmptyObject, ExecuteEquipItem(world, args), turn_narrative)

UnequipItem(args) ==
    Dispatch("unequip_item", args, EmptyObject, ExecuteUnequipItem(world, args), turn_narrative)

CombineItems(args) ==
    Dispatch("combine_items", args, EmptyObject, ExecuteCombineItems(world, args), turn_narrative)

BreakItem(args) ==
    Dispatch("break_item", args, EmptyObject, ExecuteBreakItem(world, args), turn_narrative)

AddItemToContainer(args) ==
    Dispatch("add_item_to_container", args, EmptyObject, ExecuteAddItemToContainer(world, args),
             turn_narrative)

RemoveItemFromContainer(args) ==
    Dispatch("remove_item_from_container", args, EmptyObject,
             ExecuteRemoveItemFromContainer(world, args), turn_narrative)

StartCombat(args, randoms) ==
    Dispatch("start_combat", args, randoms, ExecuteStartCombat(world, args, randoms), turn_narrative)

AttackActor(args) ==
    Dispatch("attack_actor", args, EmptyObject, ExecuteAttackActor(world, args), turn_narrative)

Defend(args) ==
    Dispatch("defend", args, EmptyObject, ExecuteDefend(world, args), turn_narrative)

Flee(args, random) ==
    Dispatch("flee", args, random, ExecuteFlee(world, args, random), turn_narrative)

UseItemInCombat(args) ==
    Dispatch("use_item_in_combat", args, EmptyObject, ExecuteUseItemInCombat(world, args),
             turn_narrative)

EndTurn(args, overflow_checks) ==
    Dispatch("end_turn", args, overflow_checks, ExecuteEndTurn(world, args, overflow_checks), turn_narrative)

InspectObject(args) ==
    Dispatch("inspect_object", args, EmptyObject, ExecuteInspectObject(world, args), turn_narrative)

\* A name the match in execute_tool_call does not know.
UnknownTool(args) ==
    Dispatch("teleport", args, EmptyObject, Err(world), turn_narrative)

\* ------------------------------------------------------------------------
\* Movement sessions
\* ------------------------------------------------------------------------
MoveArgs ==
    {[direction |-> d] : d \in Directions \cup {"up"}} \cup {Unparseable, EmptyObject}

\* No turn is in flight in the agent.
NoTurn ==
    [pc |-> "idle", turns |-> 0, message |-> EmptyObject, response_content |-> None,
     response_tool_calls |-> None, next |-> 1, applied |-> <<>>, requests |-> <<>>,
     result |-> "none", narrative |-> ""]

\* Game::new, past the splash screen and the naming of the world.
NoGame ==
    [state |-> "WaitingForInput", pc |-> "idle", inputs |-> 0, attempts |-> 0,
     replied |-> "none", last_narrative |-> "What do you want to do?", result |-> "none",
     save_list |-> <<>>, selected_save_index |-> 0]

InitSession(worlds, n) ==
    /\ world \in worlds
    /\ turn_narrative = None
    /\ calls = 0
    /\ budget = n
    /\ last = NoCall
    /\ turn = NoTurn
    /\ game = NoGame

InitMove == InitSession({NewWorld, NewGameWorld}, MaxMoveCalls)

NextMove == \E args \in MoveArgs, gen \in GenerationOutcomes : MoveTo(args, gen)

SpecMove == InitMove /\ [][NextMove]_vars

\* ------------------------------------------------------------------------
\* Movement properties
\* ------------------------------------------------------------------------
\* The grid neighbour of a coordinate and the reverse of a direction, as the
\* specification of movement states them.
Neighbour(pos, d) ==
    CASE d = "north" -> <<pos[1], pos[2] + 1>>
      [] d = "south" -> <<pos[1], pos[2] - 1>>
      [] d = "east" -> <<pos[1] + 1, pos[2]>>
      [] d = "west" -> <<pos[1] - 1, pos[2]>>

Reverse(d) ==
    CASE d = "north" -> "south"
      [] d = "south" -> "north"
      [] d = "east" -> "west"
      [] d = "west" -> "east"

\* The call just made was move_to in one of the four directions.
MovedIn(call) ==
    /\ call.op = "move_to"
    /\ Has(call.args, "direction")
    /\ call.args.direction \in Directions

Generated(w, call) ==
    /\ MovedIn(call)
    /\ call.result = "ok"
    /\ Neighbour(w.current_pos, call.args.direction) \notin DOMAIN w.locations

C5_RoundTrip ==
    [][(MovedIn(last) /\ MovedIn(last')
        /\ last'.args.direction = Reverse(last.args.direction)) =>
           world'.current_pos = last.pos]_vars

\* North to a generated location, then south back to the origin.
C5_Witness ==
    /\ calls = 2
    /\ MovedIn(last)
    /\ last.args.direction = "south"
    /\ last.result = "ok"
    /\ last.pos = <<0, 1>>
    /\ world.current_pos = <<0, 0>>

\* C6: whenever the location at p has an exit in direction d to q, q is the
\* neighbour of p in direction d, a Location exists at q, and its exit in the
\* opposite direction leads back to p.
C6_ExitsConsistent ==
    \A p \in DOMAIN world.locations :
        \A d \in DOMAIN world.locations[p].exits :
            world.locations[p].exits[d] # None =>
                LET q == world.locations[p].exits[d][1]
                IN  /\ d \in Directions
                    /\ q = Neighbour(p, d)
                    /\ q \in DOMAIN world.locations
                    /\ Reverse(d) \in DOMAIN world.locations[q].exits
                    /\ world.locations[q].exits[Reverse(d)] = Some(p)

\* C7: after a successful generation the only exit of the new location that
\* names a coordinate is the back link to the origin.
C7_GeneratedExitsDiscarded ==
    [][(Generated(world, last') /\ last'.input.ok) =>
           LET d == last'.args.direction
               origin == world.current_pos
               exits == world'.locations[Neighbour(origin, d)].exits
           IN  \A e \in DOMAIN exits :
                   exits[e] # None => (e = Reverse(d) /\ exits[e] = Some(origin))]_vars

\* ------------------------------------------------------------------------
\* Combat sessions
\* ------------------------------------------------------------------------
Str(id) == [str |-> id]

EnemyLists ==
    {<<>>,
     <<Str("goblin")>>,
     <<Str("goblin"), Str("orc")>>,
     <<Str("goblin"), Str("goblin")>>,
     <<Str("orc"), Str("goblin"), Str("troll")>>,
     <<Str("goblin"), Str("orc"), Str("troll"), Str("goblin")>>,
     <<Str("ghost")>>,
     <<Str("goblin"), Str("wolf")>>,
     <<Str("goblin"), [num |-> 7]>>}

StartArgs == {[enemy_ids |-> l] : l \in EnemyLists} \cup {Unparseable, EmptyObject}

\* Values of rand::random::<u32>(): one for the player and one for each enemy id
\* of the longest list.
RandomDraws == {<<5, 5, 5, 5, 5>>, <<0, 19, 7, 39, 12>>, <<19, 0, 27, 7, 3>>}

CombatantIds == {"player", "goblin", "orc"}

AttackArgs ==
    {[attacker_id |-> a, target_id |-> t] : a \in {"player", "goblin"}, t \in CombatantIds}
    \cup {[attacker_id |-> "player", target_id |-> t, weapon_id |-> x] :
              t \in {"goblin", "orc"}, x \in {"sword", "twig", "potion"}}
    \cup {[attacker_id |-> "ghost", target_id |-> "player"],
          [attacker_id |-> "player", target_id |-> "ghost"],
          [attacker_id |-> "player"], Unparseable}

ActorArgs == {[actor_id |-> a] : a \in CombatantIds \cup {"ghost"}} \cup {Unparseable, EmptyObject}

\* Values of rand::random::<u32>() for the flee roll.
FleeDraws == {9, 10, 39}

UseInCombatArgs ==
    {[user_id |-> u, item_id |-> i] : u \in {"player", "goblin", "ghost"},
                                      i \in {"potion", "sword", "shield", "elixir"}}
    \cup {[user_id |-> "player", item_id |-> "herb"], [user_id |-> "player"], Unparseable}

InitCombat == InitSession({SavedWorld}, MaxCombatCalls)

NextCombat ==
    \/ \E args \in StartArgs, randoms \in RandomDraws : StartCombat(args, randoms)
    \/ \E args \in AttackArgs : AttackActor(args)
    \/ \E args \in ActorArgs : Defend(args)
    \/ \E args \in ActorArgs, random \in FleeDraws : Flee(args, random)
    \/ \E args \in UseInCombatArgs : UseItemInCombat(args)
    \/ \E args \in ActorArgs, overflow_checks \in BOOLEAN : EndTurn(args, overflow_checks)

SpecCombat == InitCombat /\ [][NextCombat]_vars

\* ------------------------------------------------------------------------
\* Combat properties
\* ------------------------------------------------------------------------
\* C2: while combat is active the combatant list is non-empty and
\* current_turn_index is a valid index into it.
C2_TurnIndexValid ==
    world.combat.active =>
        /\ Len(world.combat.combatants) > 0
        /\ world.combat.current_turn_index < Len(world.combat.combatants)

\* The call just made was a start_combat that carried an enemy_ids array.
Started(call) == call.op = "start_combat" /\ Has(call.args, "enemy_ids")

\* The positions of enemy_ids that name an actor of the world.
KnownEnemies(w, enemy_ids) ==
    {i \in 1..Len(enemy_ids) :
        Has(enemy_ids[i], "str") /\ enemy_ids[i].str \in DOMAIN w.actors}

\* combatants is ordered by initiative descending, ties in insertion order:
\* there is a one-to-one assignment s of its positions to the insertion slots
\* (slot 1 the player, then the enemies in list order, the k-th slot holding the
\* k-th random draw) under which a tie is never out of insertion order.
StablySorted(combatants, inserted_ids, randoms) ==
    \E s \in [1..Len(combatants) -> 1..Len(combatants)] :
        /\ \A i, j \in 1..Len(combatants) : i # j => s[i] # s[j]
        /\ \A i \in 1..Len(combatants) :
               /\ combatants[i].id = inserted_ids[s[i]]
               /\ combatants[i].initiative = (randoms[s[i]] % 20) + 1
        /\ \A i, j \in 1..Len(combatants) :
               i < j => \/ combatants[i].initiative > combatants[j].initiative
                        \/ /\ combatants[i].initiative = combatants[j].initiative
                           /\ s[i] < s[j]

\* The ids in insertion order: the player, then the listed ids at positions keep.
RECURSIVE InsertedFrom(_, _, _)
InsertedFrom(enemy_ids, keep, i) ==
    IF i > Len(enemy_ids) THEN <<>>
    ELSE IF i \in keep THEN <<enemy_ids[i].str>> \o InsertedFrom(enemy_ids, keep, i + 1)
    ELSE InsertedFrom(enemy_ids, keep, i + 1)

\* C8 as claimed: a start_combat on an inactive combat with 1 + len <= cap
\* yields exactly 1 + len combatants, ordered by initiative descending, ties in
\* insertion order.
C8_OneCombatantPerEnemyId ==
    [][(Started(last') /\ ~world.combat.active
        /\ 1 + Len(last'.args.enemy_ids) <= world.max_combatants) =>
           /\ Len(world'.combat.combatants) = 1 + Len(last'.args.enemy_ids)
           /\ \A i, j \in 1..Len(world'.combat.combatants) :
                  i < j => world'.combat.combatants[i].initiative
                               >= world'.combat.combatants[j].initiative]_vars

\* C8 amended: such a start is rejected, the world unchanged, when an element is
\* no string or names an actor that is not at the current position; otherwise
\* it yields the player plus one combatant per listed id that names an actor
\* (ids that name no actor are skipped), stably sorted by initiative
\* descending; so exactly 1 + len when every id names an actor present.
C8_OneCombatantPerPresentActor ==
    [][(Started(last') /\ ~world.combat.active
        /\ 1 + Len(last'.args.enemy_ids) <= world.max_combatants) =>
           LET enemy_ids == last'.args.enemy_ids
               known == KnownEnemies(world, enemy_ids)
           IN  IF \/ \E i \in 1..Len(enemy_ids) : ~Has(enemy_ids[i], "str")
                  \/ \E i \in known :
                         world.actors[enemy_ids[i].str].current_pos # world.current_pos
               THEN last'.result = "err" /\ world' = world
               ELSE /\ last'.result = "ok"
                    /\ world'.combat.active
                    /\ Len(world'.combat.combatants) = 1 + Cardinality(known)
                    /\ (Cardinality(known) = Len(enemy_ids)
                            => Len(world'.combat.combatants) = 1 + Len(enemy_ids))
                    /\ StablySorted(world'.combat.combatants,
                                    <<"player">> \o InsertedFrom(enemy_ids, known, 1),
                                    last'.input)]_vars

\* Three enemies present, all four initiatives equal: the list is in insertion
\* order, the player first.
C8_Witness ==
    /\ Started(last)
    /\ last.result = "ok"
    /\ Len(world.combat.combatants) = 4
    /\ \A i \in 1..4 : world.combat.combatants[i].initiative = 6
    /\ [i \in 1..4 |-> world.combat.combatants[i].id] = <<"player", "orc", "goblin", "troll">>

\* C9: a start_combat made while combat is active, or with 1 + the number of
\* enemy ids above max_combatants, is rejected and leaves the combat sub-state
\* unchanged; the combatant list never holds more than max_combatants entries.
C9_StartRejected ==
    /\ [][(Started(last')
           /\ (world.combat.active \/ 1 + Len(last'.args.enemy_ids) > 4)) =>
              (last'.result = "err" /\ world'.combat = world.combat)]_vars
    /\ [](world.max_combatants = 4 /\ Len(world.combat.combatants) <= 4)

\* A start with four enemy ids was rejected on an inactive combat.
C9_Witness ==
    /\ Started(last)
    /\ Len(last.args.enemy_ids) = 4
    /\ last.result = "err"
    /\ ~world.combat.active
    /\ world.combat.combatants = <<>>

\* ------------------------------------------------------------------------
\* Combat resumed from a save: combatants with equipment and status effects
\* ------------------------------------------------------------------------
Effect(effect_type, duration, severity) ==
    [effect_type |-> effect_type, duration |-> duration, severity |-> severity]

SavedCombat ==
    [active |-> TRUE,
     combatants |->
        <<[id |-> "player", is_player |-> TRUE, hp |-> 30, max_hp |-> 100,
           weapon_id |-> Some("sword"), armor_id |-> Some("shield"), initiative |-> 12,
           status_effects |-> <<Effect("Poison", 2, 4)>>, temp_defense |-> 0],
          [id |-> "goblin", is_player |-> FALSE, hp |-> 6, max_hp |-> 50,
           weapon_id |-> None, armor_id |-> None, initiative |-> 9,
           status_effects |-> <<Effect("Stunned", 1, 0), Effect("Burning", 3, 2)>>,
           temp_defense |-> 5],
          [id |-> "orc", is_player |-> FALSE, hp |-> 50, max_hp |-> 50,
           weapon_id |-> None, armor_id |-> Some("shield"), initiative |-> 3,
           status_effects |-> <<>>, temp_defense |-> 0]>>,
     current_turn_index |-> 0,
     round_number |-> 2]

SavedCombatWorld == [SavedWorld EXCEPT !.combat = SavedCombat]

InitSaved == InitSession({SavedCombatWorld}, MaxSavedCalls)

SpecSaved == InitSaved /\ [][NextCombat]_vars

Max(a, b) == IF a > b THEN a ELSE b

\* The combatant an id addresses: the first one in the list that carries it.
Addressed(combatants, id) ==
    CHOOSE i \in 1..Len(combatants) :
        combatants[i].id = id /\ \A j \in 1..(i - 1) : combatants[j].id # id

\* The damage property of the weapon an attack names, 5 when it names none, an
\* unregistered one, or one without a damage property.
ClaimedWeaponDamage(w, args) ==
    IF Has(args, "weapon_id") /\ args.weapon_id \in DOMAIN w.items
       /\ w.items[args.weapon_id].properties.damage # None
    THEN w.items[args.weapon_id].properties.damage[1]
    ELSE 5

\* The defense property of the armor a combatant wears, 0 without one.
ClaimedArmorDefense(w, c) ==
    IF c.armor_id # None /\ c.armor_id[1] \in DOMAIN w.items
       /\ w.items[c.armor_id[1]].properties.defense # None
    THEN w.items[c.armor_id[1]].properties.defense[1]
    ELSE 0

EndedTurn(call) == call.op = "end_turn" /\ Has(call.args, "actor_id")

\* C12: immediately after an accepted end_turn every combatant's temporary
\* defense is zero, not only that of the combatant that ended its turn.
C12_TempDefenseReset ==
    (EndedTurn(last) /\ last.result = "ok") =>
        \A i \in 1..Len(world.combat.combatants) :
            world.combat.combatants[i].temp_defense = 0

\* The player ended the first turn of the saved combat, in which the goblin
\* held a temporary defense of 5: the goblin is still listed, with none.
C12_Witness ==
    /\ calls = 1
    /\ EndedTurn(last)
    /\ last.result = "ok"
    /\ last.args.actor_id = "player"
    /\ \E i \in 1..Len(world.combat.combatants) :
           /\ world.combat.combatants[i].id = "goblin"
           /\ world.combat.combatants[i].temp_defense = 0

\* The id of the combatant at the current turn index is actor_id.
HoldsTurn(w, actor_id) ==
    \E i \in 1..Len(w.combat.combatants) :
        i = w.combat.current_turn_index + 1 /\ w.combat.combatants[i].id = actor_id

\* C13: an end_turn for an actor that is not the combatant at the current turn
\* index, or made while combat is inactive, is rejected and changes neither
\* the turn index, the round counter, a temporary defense nor a status effect;
\* only the combatant at the current turn index advances the turn.
C13_OnlyTurnHolderEndsTurn ==
    [][EndedTurn(last') =>
           /\ (~world.combat.active \/ ~HoldsTurn(world, last'.args.actor_id))
                  => (last'.result = "err" /\ world'.combat = world.combat)
           /\ world'.combat # world.combat
                  => (world.combat.active /\ HoldsTurn(world, last'.args.actor_id))]_vars

\* The goblin's end_turn was rejected on the player's turn; its temporary
\* defense and its stun stand.
C13_Witness ==
    /\ EndedTurn(last)
    /\ last.args.actor_id = "goblin"
    /\ last.result = "err"
    /\ world.combat.active
    /\ world.combat.current_turn_index = 0
    /\ world.combat.combatants[1].id = "player"
    /\ world.combat.combatants[2].id = "goblin"
    /\ world.combat.combatants[2].temp_defense = 5
    /\ world.combat.round_number = 2

\* An effect list holds a stun.
Stunned(c) ==
    \E k \in 1..Len(c.status_effects) : c.status_effects[k].effect_type = "Stunned"

\* The end_turn of the turn holder exhausts the list: every combatant behind
\* the current one is stunned.
ExhaustsList(w) ==
    \A j \in (w.combat.current_turn_index + 2)..Len(w.combat.combatants) :
        Stunned(w.combat.combatants[j])

\* The hit points a round wrap's damage over time is said to take altogether.
RECURSIVE DamageOverTime(_)
DamageOverTime(effects) ==
    IF effects = <<>> THEN 0
    ELSE (IF Head(effects).effect_type \in {"Poison", "Burning"}
          THEN Head(effects).severity ELSE 0) + DamageOverTime(Tail(effects))

\* Every duration less by exactly one, the effects that reach zero dropped.
ClaimedEffects(effects) ==
    SelectSeq([k \in 1..Len(effects) |-> [effects[k] EXCEPT !.duration = @ - 1]],
              LAMBDA e : e.duration > 0)

\* What a round wrap is said to leave of the combatants: id, hit points and
\* effects of those with hit points left, in their order.
ClaimedAfterWrap(combatants) ==
    SelectSeq([i \in 1..Len(combatants) |->
                  [id |-> combatants[i].id,
                   hp |-> Max(0, combatants[i].hp - DamageOverTime(combatants[i].status_effects)),
                   status_effects |-> ClaimedEffects(combatants[i].status_effects)]],
              LAMBDA c : c.hp > 0)

\* C14: an accepted end_turn that exhausts the combatant list increments the
\* round counter by exactly one, decrements the duration of every effect of
\* every combatant by exactly one, removes exactly the effects whose duration
\* thereby reaches zero, and removes exactly the combatants whose hit points
\* are zero after damage over time.
C14_RoundWrap ==
    [][(EndedTurn(last') /\ last'.result = "ok" /\ ExhaustsList(world)) =>
           /\ world'.combat.round_number = world.combat.round_number + 1
           /\ [i \in 1..Len(world'.combat.combatants) |->
                  [id |-> world'.combat.combatants[i].id,
                   hp |-> world'.combat.combatants[i].hp,
                   status_effects |-> world'.combat.combatants[i].status_effects]]
              = ClaimedAfterWrap(world.combat.combatants)]_vars

\* C15: combat is never active while the player side, or the non-player side,
\* has no combatant with hit points left.
C15_ActiveMeansBothSidesAlive ==
    world.combat.active =>
        /\ \E i \in 1..Len(world.combat.combatants) :
               world.combat.combatants[i].is_player /\ world.combat.combatants[i].hp > 0
        /\ \E i \in 1..Len(world.combat.combatants) :
               ~world.combat.combatants[i].is_player /\ world.combat.combatants[i].hp > 0

\* The call just made was a flee that carried an actor id.
Fled(call) == call.op = "flee" /\ Has(call.args, "actor_id")

\* The list without the combatant that id addresses, every other entry kept.
RemoveAddressed(combatants, id) ==
    IF \A i \in 1..Len(combatants) : combatants[i].id # id THEN combatants
    ELSE LET a == Addressed(combatants, id)
         IN  [i \in 1..(Len(combatants) - 1) |->
                 IF i < a THEN combatants[i] ELSE combatants[i + 1]]

\* C16: a flee in active combat succeeds exactly when the roll (the draw
\* modulo 20) is at least 10; on success the fleeing combatant, and only that
\* combatant, leaves the list and combat becomes inactive at once if a side
\* is left with no combatant; on failure the combat state is unchanged.
C16_Flee ==
    [][(Fled(last') /\ world.combat.active) =>
           /\ last'.result = "ok"
           /\ IF last'.input % 20 >= 10
              THEN /\ world'.combat.combatants =
                          RemoveAddressed(world.combat.combatants, last'.args.actor_id)
                   /\ world'.combat.active =
                          (/\ \E i \in 1..Len(world'.combat.combatants) :
                                  world'.combat.combatants[i].is_player
                           /\ \E i \in 1..Len(world'.combat.combatants) :
                                  ~world'.combat.combatants[i].is_player)
              ELSE world'.combat = world.combat]_vars

\* The world the charge rule is said to leave after a use of a usable item: a
\* Consumed item with more than one charge has one charge less, a Consumed item
\* on its last charge leaves the inventory, any other item stays as it is.
ClaimedUse(w, item_id) ==
    LET state == w.items[item_id].state
    IN  CASE state.tag = "Consumed" /\ state.charges > 1 ->
                 [w EXCEPT !.items[item_id].state.charges = @ - 1]
          [] state.tag = "Consumed" /\ state.charges <= 1 ->
                 [w EXCEPT !.player.inventory =
                      SelectSeq(@, LAMBDA id : id # item_id)]
          [] OTHER -> w

Min(a, b) == IF a < b THEN a ELSE b

\* The call just made was a use_item_in_combat with both of its fields.
UsedInCombat(call) ==
    /\ call.op = "use_item_in_combat"
    /\ Has(call.args, "user_id")
    /\ Has(call.args, "item_id")

\* C17: use_item_in_combat succeeds only if combat is active, the user is a
\* combatant and the item is in the player's inventory, registered and usable;
\* it then applies the charge rule of use_item and sets the user's hit points
\* to min(max_hp, hp + 20); in every other case it fails and changes nothing.
C17_UseItemInCombat ==
    [][UsedInCombat(last') =>
           LET item_id == last'.args.item_id
               user_id == last'.args.user_id
           IN  IF /\ world.combat.active
                  /\ \E i \in 1..Len(world.combat.combatants) :
                         world.combat.combatants[i].id = user_id
                  /\ \E k \in 1..Len(world.player.inventory) :
                         world.player.inventory[k] = item_id
                  /\ item_id \in DOMAIN world.items
                  /\ world.items[item_id].properties.usable
               THEN LET a == Addressed(world.combat.combatants, user_id)
                        c == world.combat.combatants[a]
                    IN  /\ last'.result = "ok"
                        /\ world' = [ClaimedUse(world, item_id) EXCEPT
                                         !.combat.combatants[a].hp =
                                             Min(c.max_hp, c.hp + 20)]
               ELSE last'.result = "err" /\ world' = world]_vars

\* The player, five hit points down, drank from the potion: the potion keeps
\* one charge and stays in the inventory, the heal stops at max_hp.
C17_Witness ==
    /\ UsedInCombat(last)
    /\ last.result = "ok"
    /\ last.args = [user_id |-> "player", item_id |-> "potion"]
    /\ world.items["potion"].state = Consumed(1, 2)
    /\ Contains(world.player.inventory, "potion")
    /\ \E i \in 1..Len(world.combat.combatants) :
           /\ world.combat.combatants[i].id = "player"
           /\ world.combat.combatants[i].hp = 100
           /\ world.combat.combatants[i].max_hp = 100
    /\ calls = 3

\* The call just made was a use_item that carried an item id.
Used(call) == call.op = "use_item" /\ Has(call.args, "item_id")

\* C18: use_item always succeeds and acts only on a registered item whose
\* usable flag is set: a Consumed item with more than one charge loses exactly
\* one charge and stays in the inventory, one on its last charge leaves the
\* inventory and stays registered; for a usable item in another state, a
\* non-usable item and an unregistered id the world is unchanged.
C18_UseItem ==
    [][Used(last') =>
           /\ last'.result = "ok"
           /\ world' = IF /\ last'.args.item_id \in DOMAIN world.items
                          /\ world.items[last'.args.item_id].properties.usable
                       THEN ClaimedUse(world, last'.args.item_id)
                       ELSE world]_vars

\* The potion was used on its last charge: it left the inventory and is still
\* registered with that charge.
C18_Witness ==
    /\ Used(last)
    /\ last.result = "ok"
    /\ last.args.item_id = "potion"
    /\ ~Contains(world.player.inventory, "potion")
    /\ "potion" \in DOMAIN world.items
    /\ world.items["potion"].state = Consumed(1, 2)

\* ------------------------------------------------------------------------
\* Sessions over every operation of the dispatcher
\* ------------------------------------------------------------------------
ItemArgs == {[item_id |-> i] : i \in {"potion", "sword"}} \cup {Unparseable, EmptyObject}

InventoryArgs == ItemArgs \cup {[item_id |-> "relic"]}

TextArgs == {[text |-> "The torches gutter."], Unparseable, EmptyObject}

CreateArgs ==
    {[id |-> "elixir", item_type |-> "Consumable",
      state |-> [Consumed |-> [charges |-> 1]], properties |-> [usable |-> TRUE]],
     [id |-> "badge", item_type |-> "QuestItem", state |-> [str |-> "Equipped"]],
     [id |-> "potion", item_type |-> "Consumable"],
     [id |-> "elixir", item_type |-> "Potion"],
     [id |-> "elixir", item_type |-> "Tool", state |-> [str |-> "Broken"]],
     [id |-> "elixir"],
     EmptyObject, Unparseable}

CombineArgs ==
    {[item1_id |-> "potion", item2_id |-> "sword", result_id |-> "chest"],
     [item1_id |-> "potion", item2_id |-> "chest", result_id |-> "relic"],
     [item1_id |-> "potion", item2_id |-> "sword", result_id |-> "herb"],
     [item1_id |-> "potion", item2_id |-> "sword"],
     [item1_id |-> "potion", result_id |-> "chest"],
     [item2_id |-> "sword", result_id |-> "chest"],
     Unparseable}

UseArgs == ItemArgs \cup {[item_id |-> "herb"], [item_id |-> "relic"]}

EquipArgs == ItemArgs \cup {[item_id |-> "shield"], [item_id |-> "badge"]}

BreakArgs == ItemArgs \cup {[item_id |-> "shield"]}

ContainerArgs ==
    {[container_id |-> "chest", item_id |-> "potion"],
     [container_id |-> "chest"], [item_id |-> "potion"], Unparseable}

InspectArgs == {[object_id |-> o] : o \in {"chest", "goblin", "ghost"}} \cup {Unparseable, EmptyObject}

SessionMoveArgs == {[direction |-> d] : d \in {"north", "up"}} \cup {Unparseable, EmptyObject}

SessionGenerations == {[ok |-> FALSE], [ok |-> TRUE, location |-> ParsedLocation(AllNullExits)]}

SessionStartArgs ==
    {[enemy_ids |-> l] :
        l \in {<<Str("goblin")>>,
               <<Str("goblin"), Str("orc"), Str("troll"), Str("goblin")>>,
               <<Str("goblin"), Str("wolf")>>,
               <<Str("goblin"), [num |-> 7]>>}}
    \cup {Unparseable, EmptyObject}

SessionDraws == {<<0, 19, 7, 39, 12>>}

SessionAttackArgs ==
    {[attacker_id |-> "player", target_id |-> "goblin"],
     [attacker_id |-> "ghost", target_id |-> "player"],
     [attacker_id |-> "player", target_id |-> "ghost"],
     [attacker_id |-> "player"], [target_id |-> "goblin"], Unparseable}

SessionActorArgs == {[actor_id |-> a] : a \in {"player", "goblin", "ghost"}} \cup {Unparseable, EmptyObject}

SessionUseArgs ==
    {[user_id |-> "player", item_id |-> "potion"],
     [user_id |-> "ghost", item_id |-> "potion"],
     [user_id |-> "player", item_id |-> "sword"],
     [user_id |-> "player", item_id |-> "shield"],
     [user_id |-> "player", item_id |-> "relic"],
     [user_id |-> "player"], [item_id |-> "potion"], Unparseable}

Init == InitSession({NewWorld, NewGameWorld, SavedWorld, SavedCombatWorld}, MaxCalls)

Next ==
    \/ \E args \in SessionMoveArgs, gen \in SessionGenerations : MoveTo(args, gen)
    \/ \E args \in TextArgs : UpdateLocationDescription(args)
    \/ \E args \in TextArgs : GenerateTurnNarrative(args)
    \/ \E args \in CreateArgs : CreateItem(args)
    \/ \E args \in InventoryArgs : AddItemToInventory(args)
    \/ \E args \in ItemArgs : RemoveItemFromInventory(args)
    \/ \E args \in ItemArgs : AddItemToLocation(args)
    \/ \E args \in ItemArgs : RemoveItemFromLocation(args)
    \/ \E args \in UseArgs : UseItem(args)
    \/ \E args \in EquipArgs : EquipItem(args)
    \/ \E args \in EquipArgs : UnequipItem(args)
    \/ \E args \in CombineArgs : CombineItems(args)
    \/ \E args \in BreakArgs : BreakItem(args)
    \/ \E args \in ContainerArgs : AddItemToContainer(args)
    \/ \E args \in ContainerArgs : RemoveItemFromContainer(args)
    \/ \E args \in SessionStartArgs, randoms \in SessionDraws : StartCombat(args, randoms)
    \/ \E args \in SessionAttackArgs : AttackActor(args)
    \/ \E args \in SessionActorArgs : Defend(args)
    \/ \E args \in SessionActorArgs, random \in {9, 10} : Flee(args, random)
    \/ \E args \in SessionUseArgs : UseItemInCombat(args)
    \/ \E args \in SessionActorArgs, overflow_checks \in BOOLEAN : EndTurn(args, overflow_checks)
    \/ \E args \in InspectArgs : InspectObject(args)
    \/ \E args \in {EmptyObject, Unparseable} : UnknownTool(args)

Spec == Init /\ [][Next]_vars

\* C1: a call of any operation that returns an error (unparseable arguments, a
\* missing field, an unknown operation, an entity not found, a combat
\* precondition violated) leaves the whole world as it was before the call:
\* position, locations, item registry, actors, inventory and combat sub-state.
C1_ErrorLeavesWorldUnchanged ==
    [][last'.result = "err" => world' = world]_vars

\* use_item_in_combat was rejected for a user that is not among the combatants
\* while the potion named sat in the inventory with its charges intact.
C1_Witness ==
    /\ last.op = "use_item_in_combat"
    /\ last.result = "err"
    /\ last.args = [user_id |-> "ghost", item_id |-> "potion"]
    /\ world.combat.active
    /\ Contains(world.player.inventory, "potion")
    /\ world.items["potion"].state = Consumed(2, 2)

\* ------------------------------------------------------------------------
\* A fight to the end: the combatant whose turn it is attacks and ends its turn
\* ------------------------------------------------------------------------
\* Successful or failed escapes made before or during the fight, and the
\* temporary defense up to which defend is explored.
MaxFleeCalls == 1

MaxTempDefense == 5

\* A saved combat without status effects and with few hit points left.
FightCombat ==
    [active |-> TRUE,
     combatants |->
        <<[id |-> "goblin", is_player |-> FALSE, hp |-> 2, max_hp |-> 50,
           weapon_id |-> None, armor_id |-> None, initiative |-> 15,
           status_effects |-> <<>>, temp_defense |-> 0],
          [id |-> "orc", is_player |-> FALSE, hp |-> 3, max_hp |-> 50,
           weapon_id |-> None, armor_id |-> Some("shield"), initiative |-> 9,
           status_effects |-> <<>>, temp_defense |-> 0],
          [id |-> "player", is_player |-> TRUE, hp |-> 3, max_hp |-> 100,
           weapon_id |-> None, armor_id |-> None, initiative |-> 2,
           status_effects |-> <<>>, temp_defense |-> 0]>>,
     current_turn_index |-> 0,
     round_number |-> 1]

FightWorld == [SavedWorld EXCEPT !.combat = FightCombat]

\* combatants.get(current_turn_index)
CurrentCombatant(w) ==
    IF w.combat.current_turn_index < Len(w.combat.combatants)
    THEN Some(w.combat.combatants[w.combat.current_turn_index + 1])
    ELSE None

\* The ids of the combatants of the other side that have hit points left.
LivingOpponents(w, c) ==
    {w.combat.combatants[i].id : i \in
        {j \in 1..Len(w.combat.combatants) :
            /\ w.combat.combatants[j].is_player # c.is_player
            /\ w.combat.combatants[j].hp > 0}}

\* attack_actor by the combatant whose turn it is on a living opponent, with
\* the bare hands or with the sword.
TurnAttack(args) ==
    /\ world.combat.active
    /\ CurrentCombatant(world) # None
    /\ args.attacker_id = CurrentCombatant(world)[1].id
    /\ args.target_id \in LivingOpponents(world, CurrentCombatant(world)[1])
    /\ Resolve("attack_actor", args, EmptyObject, ExecuteAttackActor(world, args),
               turn_narrative)
    /\ UNCHANGED <<calls, budget, turn, game>>

\* end_turn by the combatant whose turn it is, once it has attacked or has no
\* living opponent to attack.
TurnEnd(overflow_checks) ==
    /\ world.combat.active
    /\ CurrentCombatant(world) # None
    /\ \/ LivingOpponents(world, CurrentCombatant(world)[1]) = {}
       \/ /\ last.op = "attack_actor"
          /\ last.result = "ok"
          /\ last.args.attacker_id = CurrentCombatant(world)[1].id
    /\ LET args == [actor_id |-> CurrentCombatant(world)[1].id]
       IN  Resolve("end_turn", args, overflow_checks,
                   ExecuteEndTurn(world, args, overflow_checks), turn_narrative)
    /\ UNCHANGED <<calls, budget, turn, game>>

\* defend by any combatant, at any time of the fight.
AnyDefend(args) ==
    /\ world.combat.active
    /\ Position(world.combat.combatants, args.actor_id) # 0
    /\ world.combat.combatants[Position(world.combat.combatants, args.actor_id)]
           .temp_defense < MaxTempDefense
    /\ Resolve("defend", args, EmptyObject, ExecuteDefend(world, args), turn_narrative)
    /\ UNCHANGED <<calls, budget, turn, game>>

FightAttackArgs ==
    {[attacker_id |-> a, target_id |-> t] : a, t \in CombatantIds}
    \cup {[attacker_id |-> a, target_id |-> t, weapon_id |-> "sword"] : a, t \in CombatantIds}

FightActorArgs == {[actor_id |-> a] : a \in CombatantIds}

InitFight == InitSession({FightWorld}, MaxFleeCalls)

TurnAttacks == \E args \in FightAttackArgs : TurnAttack(args)

TurnEnds == \E overflow_checks \in BOOLEAN : TurnEnd(overflow_checks)

NextFight ==
    \/ TurnAttacks
    \/ TurnEnds
    \/ \E args \in FightActorArgs : AnyDefend(args)
    \/ \E args \in FightActorArgs, random \in {9, 10} : Flee(args, random)

\* attack_actor and end_turn by the combatant whose turn it is are scheduled
\* fairly; defend and flee may happen or not.
SpecFight == InitFight /\ [][NextFight]_vars /\ WF_vars(TurnAttacks) /\ WF_vars(TurnEnds)

\* C11: from every reachable active combat state, with the combatant whose turn
\* it is attacking a living opponent and ending its turn under fair
\* scheduling, and any defend in between, combat eventually becomes inactive.
C11_CombatEnds == world.combat.active ~> ~world.combat.active

\* The call just made was an equip_item or an unequip_item that carried an id.
EquipCall(call) ==
    call.op \in {"equip_item", "unequip_item"} /\ Has(call.args, "item_id")

\* C19: equip_item and unequip_item on a registered item that declares no
\* equip slot leave the item's state, and the rest of the world, unchanged,
\* whatever that state is.
C19_NoSlotNoChange ==
    [][(/\ EquipCall(last')
        /\ last'.args.item_id \in DOMAIN world.items
        /\ world.items[last'.args.item_id].properties.equip_slot = <<>>) =>
           (last'.result = "ok" /\ world' = world)]_vars

\* The call just made was a combine_items with its three fields.
Combined(call) ==
    /\ call.op = "combine_items"
    /\ Has(call.args, "item1_id")
    /\ Has(call.args, "item2_id")
    /\ Has(call.args, "result_id")

\* C20: combine_items with a result id that is not registered returns success
\* and is a no-op: inventory, every location's item list and the registry are
\* as before the call.
C20_UnregisteredResultNoOp ==
    [][(Combined(last') /\ last'.args.result_id \notin DOMAIN world.items) =>
           (last'.result = "ok" /\ world' = world)]_vars

\* The call just made was a break_item that carried an item id.
Broke(call) == call.op = "break_item" /\ Has(call.args, "item_id")

\* C21: after break_item(id) the id is absent from the item registry, from the
\* player's inventory, from every actor's inventory and from every location's
\* item list.
C21_BreakRemovesEveryReference ==
    [][Broke(last') =>
           /\ last'.args.item_id \notin DOMAIN world'.items
           /\ ~Contains(world'.player.inventory, last'.args.item_id)
           /\ \A a \in DOMAIN world'.actors :
                  ~Contains(world'.actors[a].inventory, last'.args.item_id)
           /\ \A pos \in DOMAIN world'.locations :
                  ~Contains(world'.locations[pos].items, last'.args.item_id)]_vars

\* The item is a Consumed item on its last charge (or with none left).
LastCharge(item) == item.state.tag = "Consumed" /\ item.state.charges <= 1

\* C22: break_item is the only operation that removes an id from the item
\* registry: every other call leaves every registered id registered; use_item
\* and use_item_in_combat on a last charge leave the registry entry as it was,
\* and combine_items leaves both sources registered.
C22_OnlyBreakDeletes ==
    [][/\ last'.op # "break_item" =>
              \A id \in DOMAIN world.items : id \in DOMAIN world'.items
       /\ (/\ last'.op \in {"use_item", "use_item_in_combat"}
           /\ Has(last'.args, "item_id")
           /\ last'.args.item_id \in DOMAIN world.items
           /\ LastCharge(world.items[last'.args.item_id])) =>
              /\ last'.args.item_id \in DOMAIN world'.items
              /\ world'.items[last'.args.item_id] = world.items[last'.args.item_id]]_vars

\* The potion and the sword were combined into the chest: both sources left the
\* inventory and are still registered.
C22_Witness ==
    /\ last.op = "combine_items"
    /\ last.result = "ok"
    /\ last.args = [item1_id |-> "potion", item2_id |-> "sword", result_id |-> "chest"]
    /\ ~Contains(world.player.inventory, "potion")
    /\ ~Contains(world.player.inventory, "sword")
    /\ {"potion", "sword"} \subseteq DOMAIN world.items

\* The call just made was a create_item that carried an id.
Created(call) == call.op = "create_item" /\ Has(call.args, "id")

\* C23: create_item fails if the id is already registered and leaves the
\* existing entry (and the rest of the world) as it was; every entry of the
\* registry carries the id it is registered under, so no two entries share an id.
C23_CreateNeverOverwrites ==
    [][/\ (Created(last') /\ last'.args.id \in DOMAIN world.items) =>
              /\ last'.result = "err"
              /\ world'.items[last'.args.id] = world.items[last'.args.id]
              /\ world' = world
       /\ \A j, k \in DOMAIN world'.items :
              world'.items[j].id = world'.items[k].id => j = k]_vars

\* create_item was refused for the id of the registered potion, which still
\* has both of its charges.
C23_Witness ==
    /\ Created(last)
    /\ last.args.id = "potion"
    /\ last.result = "err"
    /\ "potion" \in DOMAIN world.items
    /\ world.items["potion"] = Potion

\* The state argument of a create_item call is absent or carries one of the
\* tags of ItemState.
KnownStateTag(args) ==
    \/ ~Has(args, "state")
    \/ Has(args.state, "str") /\ args.state.str \in {"Normal", "Equipped"}
    \/ \E tag \in {"Damaged", "Consumed", "Locked", "Open"} : Has(args.state, tag)

\* C24: a create_item call whose item_type tag or whose state tag is not one of
\* the known values fails with an error and registers no item.
C24_CreateValidatesEnumerations ==
    [][(/\ Created(last')
        /\ \/ Has(last'.args, "item_type") /\ last'.args.item_type \notin ItemTypes
           \/ ~KnownStateTag(last'.args)) =>
              /\ last'.result = "err"
              /\ world'.items = world.items]_vars

\* No element of the sequence occurs at two positions.
NoDuplicates(s) == \A i, j \in 1..Len(s) : s[i] = s[j] => i = j

\* C25: adding an item id that is already present is a no-op, so after any
\* sequence of operations the player's inventory and every location's item
\* list contain each id at most once.
C25_ItemMembershipIsASet ==
    /\ NoDuplicates(world.player.inventory)
    /\ \A pos \in DOMAIN world.locations : NoDuplicates(world.locations[pos].items)

\* ------------------------------------------------------------------------
\* The turn of the agent: Agent::process_action
\* ------------------------------------------------------------------------
\* Turns per explored session, and the longest list of tool calls in a response.
MaxTurns == 2

MaxToolCalls == 3

\* The dispatcher's match on the operation name.  input holds what the call
\* may draw from outside the world: the generator's answer (gen), the
\* initiative rolls (randoms), the flee roll (random) and whether the build
\* checks arithmetic overflow (overflow_checks).
ExecuteToolCall(w, name, args, input) ==
    CASE name = "move_to" -> ExecuteMoveTo(w, args, input.gen)
      [] name = "update_location_description" -> ExecuteUpdateLocationDescription(w, args)
      [] name = "generate_turn_narrative" -> ExecuteGenerateTurnNarrative(w, args)
      [] name = "create_item" -> ExecuteCreateItem(w, args)
      [] name = "add_item_to_inventory" -> ExecuteAddItemToInventory(w, args)
      [] name = "remove_item_from_inventory" -> ExecuteRemoveItemFromInventory(w, args)
      [] name = "add_item_to_location" -> ExecuteAddItemToLocation(w, args)
      [] name = "remove_item_from_location" -> ExecuteRemoveItemFromLocation(w, args)
      [] name = "use_item" -> ExecuteUseItem(w, args)
      [] name = "equip_item" -> ExecuteEquipItem(w, args)
      [] name = "unequip_item" -> ExecuteUnequipItem(w, args)
      [] name = "combine_items" -> ExecuteCombineItems(w, args)
      [] name = "break_item" -> ExecuteBreakItem(w, args)
      [] name = "add_item_to_container" -> ExecuteAddItemToContainer(w, args)
      [] name = "remove_item_from_container" -> ExecuteRemoveItemFromContainer(w, args)
      [] name = "start_combat" -> ExecuteStartCombat(w, args, input.randoms)
      [] name = "attack_actor" -> ExecuteAttackActor(w, args)
      [] name = "defend" -> ExecuteDefend(w, args)
      [] name = "flee" -> ExecuteFlee(w, args, input.random)
      [] name = "use_item_in_combat" -> ExecuteUseItemInCombat(w, args)
      [] name = "end_turn" -> ExecuteEndTurn(w, args, input.overflow_checks)
      [] name = "inspect_object" -> ExecuteInspectObject(w, args)
      [] OTHER -> Err(w)

\* serde_json::from_value::<ToolCall>: an id, a type and a function with a name
\* and an argument string.
Decodable(call) ==
    /\ Has(call, "id") /\ Has(call, "type") /\ Has(call, "function")
    /\ Has(call.function, "name") /\ Has(call.function, "arguments")

\* response.get("tool_calls").and_then(|tc| serde_json::from_value(tc).ok()):
\* the whole vector decodes or none of it does.
DecodeToolCalls(message) ==
    IF ~Has(message, "tool_calls") THEN None
    ELSE IF \A i \in 1..Len(message.tool_calls) : Decodable(message.tool_calls[i])
    THEN Some(message.tool_calls)
    ELSE None

\* response.get("content").and_then(|c| c.as_str())
ResponseContent(message) ==
    IF Has(message, "content") THEN Some(message.content) ELSE None

\* process_action hands its result to the caller.
Return(t, result, narrative) ==
    [t EXCEPT !.pc = "returned", !.result = result, !.narrative = narrative]

\* process_action from its entry to the answer to its first request.  expired
\* is the comparison of the elapsed time with the time budget; reply is what
\* send_chat_request returns.
ProcessAction(expired, reply) ==
    /\ turn.pc \in {"idle", "returned"}
    /\ turn.turns < MaxTurns
    /\ last.result # "panic"
    /\ turn_narrative' = None
    /\ LET t == [NoTurn EXCEPT !.turns = turn.turns + 1]
       IN  turn' =
             IF expired
             THEN Return(t, "ok", "[Timeout: The game took too long to respond]")
             ELSE IF ~reply.ok
             THEN Return([t EXCEPT !.requests = <<TRUE>>], "err", "")
             ELSE LET tool_calls == DecodeToolCalls(reply.message)
                  IN  [t EXCEPT !.requests = <<TRUE>>,
                                !.message = reply.message,
                                !.response_content = ResponseContent(reply.message),
                                !.response_tool_calls = tool_calls,
                                !.pc = IF tool_calls # None /\ Len(tool_calls[1]) > 0
                                       THEN "tools" ELSE "narrate"]
    /\ UNCHANGED <<world, calls, budget, last, game>>

\* Where the loop over the tool calls stands after the call at position next
\* of n returned result.
AfterCall(result, next, n) ==
    IF Has(result, "panic") THEN "aborted"
    ELSE IF next = n THEN "narrate" ELSE "tools"

\* One pass of the loop over the tool calls: let _ = execute_tool_call(..).
ApplyToolCall(input) ==
    /\ turn.pc = "tools"
    /\ calls < budget
    /\ LET tool_calls == turn.response_tool_calls[1]
           call == tool_calls[turn.next]
           name == call.function.name
           args == call.function.arguments
           result == ExecuteToolCall(world, name, args, input)
       IN  /\ Resolve(name, args, input, result,
                      IF name = "generate_turn_narrative" /\ result.ok
                      THEN Some(args.text) ELSE turn_narrative)
           /\ turn' = [turn EXCEPT !.next = @ + 1,
                                   !.applied = Append(@, call),
                                   !.pc = AfterCall(result, turn.next, Len(tool_calls))]
    /\ calls' = calls + 1
    /\ UNCHANGED <<budget, game>>

\* process_action after the tool calls: the narrative set by a tool call, or one
\* follow-up request without tools, or the content of the first response.
Narrate(reply) ==
    /\ turn.pc = "narrate"
    /\ turn' =
         IF turn_narrative # None
         THEN Return(turn, "ok", turn_narrative[1])
         ELSE LET content == IF turn.response_content # None
                             THEN turn.response_content[1] ELSE ""
              IN  IF turn.response_tool_calls # None /\ turn.response_content = None
                  THEN Return([turn EXCEPT !.requests = Append(@, FALSE)], "ok",
                              IF reply.ok /\ Has(reply.message, "content")
                              THEN reply.message.content ELSE content)
                  ELSE Return(turn, "ok", content)
    /\ UNCHANGED <<world, turn_narrative, calls, budget, last, game>>

\* A tool call of a response: id, type marker, function name and arguments.
ToolCall(id, name, args) ==
    [id |-> id, type |-> "function", function |-> [name |-> name, arguments |-> args]]

\* A tool call whose arguments arrive as a JSON object instead of a string.
ObjectArguments(id, name, args) ==
    [id |-> id, type |-> "function", function |-> [name |-> name, arguments_object |-> args]]

Elixir ==
    [id |-> "elixir", item_type |-> "Consumable",
     state |-> [Consumed |-> [charges |-> 2]], properties |-> [usable |-> TRUE]]

ToolCallLists ==
    {<<ToolCall("a", "create_item", Elixir),
       ToolCall("b", "use_item", [item_id |-> "elixir"]),
       ToolCall("c", "add_item_to_inventory", [item_id |-> "elixir"])>>,
     <<ToolCall("a", "teleport", EmptyObject),
       ToolCall("b", "create_item", Unparseable),
       ToolCall("c", "add_item_to_inventory", [item_id |-> "elixir"])>>,
     <<ToolCall("a", "start_combat", [enemy_ids |-> <<Str("ghost")>>]),
       ToolCall("b", "start_combat", [enemy_ids |-> <<Str("ghost")>>]),
       ToolCall("c", "add_item_to_inventory", [item_id |-> "elixir"])>>,
     <<ToolCall("a", "add_item_to_inventory", [item_id |-> "elixir"]),
       ToolCall("b", "generate_turn_narrative", [text |-> "You pocket the elixir."])>>,
     <<ToolCall("a", "generate_turn_narrative", EmptyObject)>>,
     <<ToolCall("a", "create_item", Elixir),
       ObjectArguments("b", "add_item_to_inventory", [item_id |-> "elixir"])>>,
     <<ToolCall("a", "flee", [actor_id |-> "orc"]),
       ToolCall("b", "end_turn", [actor_id |-> "player"]),
       ToolCall("c", "add_item_to_inventory", [item_id |-> "elixir"])>>,
     <<>>}

\* The answers of send_chat_request to the first request of a turn.
TurnReplies ==
    {[ok |-> FALSE],
     [ok |-> TRUE, message |-> [content |-> "You wait."]],
     [ok |-> TRUE, message |-> [role |-> "assistant"]]}
    \cup {[ok |-> TRUE, message |-> [tool_calls |-> l]] : l \in ToolCallLists}
    \cup {[ok |-> TRUE, message |-> [content |-> "Done.", tool_calls |-> l]] :
             l \in ToolCallLists}

\* The answers to the follow-up request.
NarrativeReplies ==
    {[ok |-> FALSE], [ok |-> TRUE, message |-> [content |-> "It is done."]],
     [ok |-> TRUE, message |-> [role |-> "assistant"]]}

ToolInputs ==
    {[gen |-> [ok |-> FALSE], randoms |-> <<0, 19, 7, 39, 12>>, random |-> r,
      overflow_checks |-> oc] : r \in {9, 10}, oc \in BOOLEAN}

InitTurn == InitSession({NewGameWorld, SavedWorld, SavedCombatWorld}, MaxTurns * MaxToolCalls)

NextTurn ==
    \/ \E expired \in BOOLEAN, reply \in TurnReplies : ProcessAction(expired, reply)
    \/ \E input \in ToolInputs : ApplyToolCall(input)
    \/ \E reply \in NarrativeReplies : Narrate(reply)

SpecTurn == InitTurn /\ [][NextTurn]_vars

\* The turn has returned normally with the answer to its first request.
Answered(t) == t.pc = "returned" /\ t.result = "ok" /\ t.message # EmptyObject

\* C26: the tool calls of a response are applied through the dispatcher in the
\* order received, each exactly once, and a call that fails does not keep a
\* later call of the same response from being applied: when the turn returns,
\* the calls applied are the calls of the response, in order.
C26_ToolCallsAppliedInOrder ==
    (Answered(turn) /\ Has(turn.message, "tool_calls")) =>
        turn.applied = turn.message.tool_calls

\* The response carries narrative text: as content, or as the text of a
\* generate_turn_narrative call.
CarriesNarrative(message) ==
    \/ Has(message, "content")
    \/ /\ Has(message, "tool_calls")
       /\ \E i \in 1..Len(message.tool_calls) :
              /\ message.tool_calls[i].function.name = "generate_turn_narrative"
              /\ Has(message.tool_calls[i].function, "arguments")
              /\ Has(message.tool_calls[i].function.arguments, "text")

\* C27: a response with tool calls and no narrative text is followed by exactly
\* one more request, made without tools after all tool calls were applied; a
\* turn never makes more than one follow-up request, and makes none when the
\* response carried narrative text.
C27_ExactlyOneFollowUp ==
    Answered(turn) =>
        /\ Len(turn.requests) <= 2
        /\ (/\ Has(turn.message, "tool_calls")
            /\ Len(turn.message.tool_calls) > 0
            /\ ~CarriesNarrative(turn.message)) =>
               /\ turn.requests = <<TRUE, FALSE>>
               /\ turn.applied = turn.message.tool_calls
        /\ CarriesNarrative(turn.message) => turn.requests = <<TRUE>>

\* C28: a turn never returns an error to its caller because the generation
\* collaborator failed or timed out.
C28_TurnNeverReturnsError == turn.result # "err"

\* ------------------------------------------------------------------------
\* The turn of the game: Game::handle_game_input and Game::apply_update
\* ------------------------------------------------------------------------
\* User inputs per explored session.
MaxInputs == 2

max_attempts == 20

\* The location MoveTo(x, y) creates where there is none.
DefaultLocation(pos) ==
    [name |-> "Location (" \o ToString(pos[1]) \o ", " \o ToString(pos[2]) \o ")",
     description |-> "A mysterious place that appeared suddenly.",
     items |-> <<>>, actors |-> <<>>, exits |-> <<>>, visited |-> TRUE]

\* The parser whose MoveTo moves the player and creates nothing.
ParseAndApplyActionMoveOnly(w, action) ==
    IF action.kind = "MoveTo" /\ Has(action, "coords")
    THEN Ok([w EXCEPT !.current_pos = action.coords])
    ELSE Ok(w)

\* One action string of an update.  The string is the record of its kind (the
\* text before the parenthesis) and of what the parser reads in it: coords for
\* two integers separated by a comma, item_id for a quoted item id; a MoveTo
\* whose text has a comma and no two integers carries no coords.
\* CreateLocation(x, y, {..}) is cut at [14..], one short of its 15-character
\* prefix, so that the x text starts with the parenthesis and never parses;
\* with fewer than two commas (no coords) the action is logged and skipped.
\* UpdateLocation and the two location item actions cut the coordinates at the
\* first comma and then find no comma to split them at: nothing is done.
\* AddItemToInventory is cut at [20..len - 1], one past its 19-character
\* prefix: the opening quote of the id is dropped and the closing one trimmed,
\* and the text with empty parentheses (no item_id) is a slice from 20 to 19.
ParseAndApplyAction(w, action) ==
    CASE action.kind = "MoveTo" ->
            IF ~Has(action, "coords") THEN Err(w)
            ELSE IF action.coords \in DOMAIN w.locations
            THEN Ok([w EXCEPT !.current_pos = action.coords,
                              !.locations[action.coords].visited = TRUE])
            ELSE Ok([w EXCEPT !.current_pos = action.coords,
                              !.locations = Put(@, action.coords,
                                                DefaultLocation(action.coords))])
      [] action.kind = "CreateLocation" ->
            IF Has(action, "coords") THEN Err(w) ELSE Ok(w)
      [] action.kind = "AddItemToInventory" ->
            IF ~Has(action, "item_id") THEN Panic(w)
            ELSE IF ~Contains(w.player.inventory, action.item_id)
            THEN Ok([w EXCEPT !.player.inventory = Append(@, action.item_id)])
            ELSE Ok(w)
      [] action.kind = "RemoveItemFromInventory" ->
            Ok([w EXCEPT !.player.inventory = Without(@, {action.item_id})])
      [] OTHER -> Ok(w)

\* for action_str in &update.actions { self.parse_and_apply_action(action_str)?; }
\* from position i on: the first error ends the pass and keeps what was applied.
RECURSIVE ApplyActions(_, _, _)
ApplyActions(w, actions, i) ==
    IF i > Len(actions) THEN Ok(w)
    ELSE LET result == ParseAndApplyAction(w, actions[i])
         IN  IF result.ok THEN ApplyActions(result.world, actions, i + 1) ELSE result

\* apply_update: a first pass over the CreateLocation actions, then a second
\* pass over the others; an error of the first pass ends the update.
ApplyUpdate(w, actions) ==
    LET first == ApplyActions(w, SelectSeq(actions, LAMBDA a : a.kind = "CreateLocation"), 1)
    IN  IF ~first.ok THEN first
        ELSE ApplyActions(first.world,
                          SelectSeq(actions, LAMBDA a : a.kind # "CreateLocation"), 1)

\* The retry loop gives up after this many failed attempts.
ExhaustedOneLate(attempts) == attempts > max_attempts

Exhausted(attempts) == attempts >= max_attempts

\* handle_game_input up to its retry loop, for an input made in WaitingForInput.
HandleGameInput ==
    /\ game.state = "WaitingForInput"
    /\ game.pc \in {"idle", "returned"}
    /\ game.inputs < MaxInputs
    /\ game' = IF world.current_pos \in DOMAIN world.locations
               THEN [game EXCEPT !.state = "Processing", !.pc = "loop",
                                 !.inputs = @ + 1, !.attempts = 0, !.replied = "none",
                                 !.result = "none"]
               ELSE [game EXCEPT !.state = "Processing", !.pc = "returned",
                                 !.inputs = @ + 1, !.attempts = 0, !.replied = "none",
                                 !.result = "err"]
    /\ UNCHANGED <<world, turn_narrative, calls, budget, last, turn>>

\* One pass of the retry loop: a call of generate_update and what follows it.
Attempt(reply) ==
    /\ game.pc = "loop"
    /\ LET attempts == game.attempts + 1
       IN  IF reply.ok
           THEN LET applied == ApplyUpdate(world, reply.update.actions)
                IN  /\ world' = applied.world
                    /\ game' = IF Outcome(applied) = "panic"
                                THEN [game EXCEPT
                                         !.attempts = attempts,
                                         !.replied = "ok",
                                         !.last_narrative = reply.update.narrative,
                                         !.state = "UpdatingWorld",
                                         !.pc = "panicked",
                                         !.result = "panic"]
                                ELSE [game EXCEPT
                                         !.attempts = attempts,
                                         !.replied = "ok",
                                         !.last_narrative =
                                             IF applied.ok THEN reply.update.narrative
                                             ELSE "Error applying update",
                                         !.state = "WaitingForInput",
                                         !.pc = "returned",
                                         !.result = "ok"]
           ELSE /\ world' = world
                /\ game' = IF Exhausted(attempts)
                           THEN [game EXCEPT
                                    !.attempts = attempts,
                                    !.replied = "err",
                                    !.last_narrative =
                                        "The spirits are silent. (Failed after 20 attempts)",
                                    !.state = "WaitingForInput",
                                    !.pc = "returned",
                                    !.result = "ok"]
                           ELSE [game EXCEPT !.attempts = attempts, !.replied = "err"]
    /\ UNCHANGED <<turn_narrative, calls, budget, last, turn>>

\* The updates generate_update decodes from the collaborator's answers.
Updates ==
    {[narrative |-> "You walk east.",
      actions |-> <<[kind |-> "MoveTo", coords |-> <<1, 0>>]>>],
     [narrative |-> "You pick up the key.",
      actions |-> <<[kind |-> "AddItemToInventory", item_id |-> "key"],
                    [kind |-> "MoveTo"],
                    [kind |-> "RemoveItemFromInventory", item_id |-> "key"]>>],
     [narrative |-> "You drop the potion.",
      actions |-> <<[kind |-> "RemoveItemFromInventory", item_id |-> "potion"],
                    [kind |-> "Dance"]>>],
     [narrative |-> "A door appears to the north.",
      actions |-> <<[kind |-> "MoveTo", coords |-> <<0, 1>>],
                    [kind |-> "CreateLocation", coords |-> <<0, 1>>]>>],
     [narrative |-> "You take it.",
      actions |-> <<[kind |-> "MoveTo", coords |-> <<0, 1>>],
                    [kind |-> "AddItemToInventory"]>>],
     [narrative |-> "Nothing happens.", actions |-> <<>>]}

Attempts ==
    \E reply \in {[ok |-> FALSE]} \cup {[ok |-> TRUE, update |-> u] : u \in Updates} :
        Attempt(reply)

InitGame == InitSession({NewWorld, NewGameWorld, SavedWorld}, 0)

NextGame == HandleGameInput \/ Attempts

SpecGame == InitGame /\ [][NextGame]_vars /\ WF_vars(Attempts)

\* C29: for one user action handle_game_input calls the collaborator at most 20
\* times and always terminates (the retry loop ends: the handler returns, or
\* the process aborts while applying an answer that was received); no failed
\* call changes the world, and the 20th
\* consecutive failure ends the turn with the terminal "Failed after 20
\* attempts" narrative and the game in state WaitingForInput.
C29_BoundedRetries ==
    /\ [](game.attempts <= 20)
    /\ [][(game'.attempts = game.attempts + 1 /\ game'.replied = "err") =>
              /\ world' = world
              /\ game'.attempts = 20 =>
                     /\ game'.pc = "returned"
                     /\ game'.last_narrative =
                            "The spirits are silent. (Failed after 20 attempts)"
                     /\ game'.state = "WaitingForInput"]_vars
    /\ (game.pc = "loop" ~> game.pc \in {"returned", "panicked"})

\* The twentieth call of a turn failed and the turn returned with the terminal
\* narrative.
C29_Witness ==
    /\ game.pc = "returned"
    /\ game.attempts = 20
    /\ game.replied = "err"
    /\ game.state = "WaitingForInput"
    /\ game.last_narrative = "The spirits are silent. (Failed after 20 attempts)"

\* ------------------------------------------------------------------------
\* Structured output: LlmClient::is_complete_json, parse_location_json and
\* parse_content
\* ------------------------------------------------------------------------
\* A text is the sequence of its characters; a run of characters that holds no
\* brace, bracket, double quote, backslash or white space (a word, a colon, a
\* comma) is written as one element, which the scan and the search for the
\* outermost braces pass over as they pass over each of its characters.
\* Texts explored: every text of at most MaxLen characters over Alphabet, and
\* every prefix of the two documents below.
MaxLen == 4

Alphabet == {"{", "}", "[", "]", "\"", "\\", "a", " "}

\* while j > 0 && chars[j - 1] == '\\' { backslash_count += 1; j -= 1; }
BackslashCountAtMostOne(chars, j) ==
    IF j > 1 /\ chars[j - 1] = "\\" THEN 1 ELSE 0

RECURSIVE BackslashCount(_, _)
BackslashCount(chars, j) ==
    IF j > 1 /\ chars[j - 1] = "\\" THEN 1 + BackslashCount(chars, j - 1) ELSE 0

\* The while loop of is_complete_json from position i on.  The check made
\* every 1000 characters repeats the two checks made at each closing brace
\* and bracket, which have already returned.
RECURSIVE Scan(_, _, _, _, _)
Scan(chars, i, brace_count, bracket_count, in_string) ==
    IF i > Len(chars) THEN brace_count = 0 /\ bracket_count = 0 /\ ~in_string
    ELSE LET ch == chars[i]
         IN  IF ch = "\""
             THEN Scan(chars, i + 1, brace_count, bracket_count,
                       IF BackslashCount(chars, i) % 2 = 0 THEN ~in_string ELSE in_string)
             ELSE IF in_string THEN Scan(chars, i + 1, brace_count, bracket_count, in_string)
             ELSE IF ch = "{" THEN Scan(chars, i + 1, brace_count + 1, bracket_count, in_string)
             ELSE IF ch = "}"
             THEN IF brace_count - 1 < 0 THEN FALSE
                  ELSE Scan(chars, i + 1, brace_count - 1, bracket_count, in_string)
             ELSE IF ch = "[" THEN Scan(chars, i + 1, brace_count, bracket_count + 1, in_string)
             ELSE IF ch = "]"
             THEN IF bracket_count - 1 < 0 THEN FALSE
                  ELSE Scan(chars, i + 1, brace_count, bracket_count - 1, in_string)
             ELSE Scan(chars, i + 1, brace_count, bracket_count, in_string)

is_complete_json(content) == Scan(content, 1, 0, 0, FALSE)

\* str::trim
RECURSIVE Trim(_)
Trim(content) ==
    IF content = <<>> THEN content
    ELSE IF Head(content) = " " THEN Trim(Tail(content))
    ELSE IF content[Len(content)] = " " THEN Trim(SubSeq(content, 1, Len(content) - 1))
    ELSE content

\* The documents a complete answer holds, and the object that every field of
\* Location defaults from.
LocationDocument ==
    <<"{", "\"", "name", "\"", ":", "\"", "Cave", "\"", ",", "\"", "exits", "\"", ":",
      "{", "\"", "north", "\"", ":", "null", "}", ",", "\"", "items", "\"", ":", "[", "]", "}">>

UpdateDocument ==
    <<"{", "\"", "narrative", "\"", ":", "\"", "You", " ", "wait.", "\"", ",",
      "\"", "actions", "\"", ":", "[", "]", ",",
      "\"", "suggested_actions", "\"", ":", "[", "]", "}">>

EmptyObjectText(json_str) ==
    /\ Len(json_str) >= 2
    /\ json_str[1] = "{" /\ json_str[Len(json_str)] = "}"
    /\ \A k \in 2..(Len(json_str) - 1) : json_str[k] = " "

\* serde_json::from_str::<Location>, every field of which has a default, and
\* serde_json::from_str::<WorldUpdate>, which has none, on the texts explored.
DecodesAs(type, json_str) ==
    IF type = "Location"
    THEN json_str = LocationDocument \/ EmptyObjectText(json_str)
    ELSE json_str = UpdateDocument

\* The body shared by parse_location_json and parse_content: trim, the
\* completeness scan, the slice from the first "{" to the last "}", decode.
\* The slice start..=end panics when start > end + 1.
ParseOutcome(type, content) ==
    LET cleaned_content == Trim(content)
        opens == {k \in 1..Len(cleaned_content) : cleaned_content[k] = "{"}
        closes == {k \in 1..Len(cleaned_content) : cleaned_content[k] = "}"}
    IN  IF ~is_complete_json(cleaned_content) THEN "err"
        ELSE IF opens = {} \/ closes = {} THEN "err"
        ELSE LET json_start == CHOOSE k \in opens : \A m \in opens : k <= m
                 json_end == CHOOSE k \in closes : \A m \in closes : k >= m
             IN  IF json_start > json_end + 1 THEN "panic"
                 ELSE IF DecodesAs(type, SubSeq(cleaned_content, json_start, json_end))
                 THEN "ok" ELSE "err"

\* A call of parse_location_json or of parse_content on a text.
Parse(op, type, content) ==
    /\ calls < budget
    /\ last.result # "panic"
    /\ calls' = calls + 1
    /\ last' = [op |-> op, args |-> [content |-> content], input |-> EmptyObject,
                result |-> ParseOutcome(type, content), pos |-> world.current_pos]
    /\ UNCHANGED <<world, turn_narrative, budget, turn, game>>

ParseLocationJson(content) == Parse("parse_location_json", "Location", content)

ParseContent(content) == Parse("parse_content", "WorldUpdate", content)

Prefixes(document) == {SubSeq(document, 1, n) : n \in 0..Len(document)}

Texts ==
    UNION {[1..n -> Alphabet] : n \in 0..MaxLen}
    \cup Prefixes(LocationDocument) \cup Prefixes(UpdateDocument)

InitParse == InitSession({NewWorld}, 1)

NextParse ==
    \/ calls < budget /\ \E content \in Texts : ParseLocationJson(content)
    \/ calls < budget /\ \E content \in Texts : ParseContent(content)

SpecParse == InitParse /\ [][NextParse]_vars

\* The positions of the text at which a double quote is preceded by an even
\* number of backslashes.
Delimiters(text) ==
    {k \in 1..Len(text) :
        /\ text[k] = "\""
        /\ \E b \in 0..(k - 1) :
              /\ b % 2 = 0
              /\ \A m \in (k - b)..(k - 1) : text[m] = "\\"
              /\ (k - b > 1 => text[k - b - 1] # "\\")}

\* Position k of the text lies outside every string.
Outside(text, k) ==
    /\ text[k] # "\""
    /\ Cardinality({d \in Delimiters(text) : d < k}) % 2 = 0

\* Openers minus closers outside strings among the first i characters.
Depth(text, i, opener, closer) ==
    Cardinality({k \in 1..i : text[k] = opener /\ Outside(text, k)})
    - Cardinality({k \in 1..i : text[k] = closer /\ Outside(text, k)})

ClaimedComplete(text) ==
    /\ \A i \in 1..Len(text) : Depth(text, i, "{", "}") >= 0 /\ Depth(text, i, "[", "]") >= 0
    /\ Depth(text, Len(text), "{", "}") = 0
    /\ Depth(text, Len(text), "[", "]") = 0
    /\ Cardinality(Delimiters(text)) % 2 = 0

\* A parse of a text has just been made.
Parsed(call) == call.op \in {"parse_location_json", "parse_content"}

NextUnstunned(w) ==
    LET free == {j \in (w.combat.current_turn_index + 1)..(Len(w.combat.combatants) - 1) :
                    ~Stunned(w.combat.combatants[j + 1])}
    IN  IF free = {} THEN Len(w.combat.combatants)
        ELSE CHOOSE j \in free : \A k \in free : j <= k

\* The effects of a combatant that is passed over: the stun one shorter, the
\* other effects as they were.
PassedOver(effects) ==
    [k \in 1..Len(effects) |->
        IF effects[k].effect_type = "Stunned"
        THEN [effects[k] EXCEPT !.duration = Max(0, @ - 1)]
        ELSE effects[k]]

\* C31: an accepted end_turn that does not wrap the round moves the turn to
\* the smallest index behind the current one whose combatant holds no stun;
\* each combatant passed over has its stun's duration decremented by one and
\* its other effects left as they were, and no other combatant changes apart
\* from the reset of the temporary defense.
C31_StunSkip ==
    [][(EndedTurn(last') /\ last'.result = "ok" /\ ~ExhaustsList(world)) =>
           LET next == NextUnstunned(world)
           IN  /\ world'.combat.current_turn_index = next
               /\ Len(world'.combat.combatants) = Len(world.combat.combatants)
               /\ \A i \in 1..Len(world.combat.combatants) :
                      world'.combat.combatants[i] =
                          [world.combat.combatants[i] EXCEPT
                              !.temp_defense = 0,
                              !.status_effects =
                                  IF world.combat.current_turn_index + 1 < i /\ i < next + 1
                                  THEN PassedOver(@) ELSE @]]_vars

\* C33: combatant records exist only while combat is active; whenever combat
\* is inactive (before the first start, after a successful escape, after one
\* side is eliminated) the combatant list is empty.
C33_NoCombatantsOutsideCombat ==
    ~world.combat.active => world.combat.combatants = <<>>

\* C34: defend raises the acting combatant's temporary defense by 5 for one
\* round: when a combatant defends and then ends its own turn, and the round
\* goes on, its temporary defense of at least 5 is still in effect for the
\* attacks of the combatants that act after it.
C34_DefendLastsTheRound ==
    [][(/\ last.op = "defend" /\ last.result = "ok"
        /\ EndedTurn(last') /\ last'.result = "ok"
        /\ last'.args.actor_id = last.args.actor_id
        /\ ~ExhaustsList(world)) =>
           /\ world'.combat.active
           /\ \E i \in 1..Len(world'.combat.combatants) :
                  /\ world'.combat.combatants[i].id = last.args.actor_id
                  /\ world'.combat.combatants[i].temp_defense >= 5]_vars

\* C36: the ids of the combatants in the combatant list are pairwise distinct
\* in every reachable state, whatever enemy-id list start_combat was given, so
\* that an id addresses exactly one combatant.
C36_CombatantIdsDistinct ==
    \A i, j \in 1..Len(world.combat.combatants) :
        world.combat.combatants[i].id = world.combat.combatants[j].id => i = j

\* A combatant as start_combat is said to leave it for good: no status
\* effect, no weapon, no armor.
Bare(c) == c.status_effects = <<>> /\ c.weapon_id = <<>> /\ c.armor_id = <<>>

\* C37: from a world whose combat sub-state is the default one, every
\* combatant of every reachable state has an empty status-effect list and no
\* weapon or armor id; hence an accepted end_turn passes to the very next
\* combatant or wraps, takes no hit point from anyone, and an accepted attack
\* is reduced by the temporary defense alone.
C37_CombatantsStayBare ==
    /\ [](\A i \in 1..Len(world.combat.combatants) : Bare(world.combat.combatants[i]))
    /\ [][(EndedTurn(last') /\ last'.result = "ok") =>
              LET current == world.combat.current_turn_index
                  reset == [i \in 1..Len(world.combat.combatants) |->
                               [world.combat.combatants[i] EXCEPT !.temp_defense = 0]]
              IN  IF current + 1 < Len(world.combat.combatants)
                  THEN /\ world'.combat.current_turn_index = current + 1
                       /\ world'.combat.combatants = reset
                  ELSE /\ world'.combat.round_number = world.combat.round_number + 1
                       /\ world'.combat.combatants = SelectSeq(reset, LAMBDA c : c.hp > 0)]_vars
    /\ [][(last'.op = "attack_actor" /\ last'.result = "ok") =>
              LET t == Addressed(world.combat.combatants, last'.args.target_id)
                  target == world.combat.combatants[t]
                  damage == Max(1, ClaimedWeaponDamage(world, last'.args) - target.temp_defense)
              IN  world'.combat.combatants[t].hp = Max(0, target.hp - damage)]_vars

\* In a combat started by the dispatcher the goblin defended and the player
\* struck it with the sword: of the 50 points of the sword only the temporary
\* defense of 5 was taken off, and the goblin, with nothing attached, is down.
C37_Witness ==
    /\ last.op = "attack_actor"
    /\ last.result = "ok"
    /\ last.args = [attacker_id |-> "player", target_id |-> "goblin", weapon_id |-> "sword"]
    /\ \E i \in 1..Len(world.combat.combatants) :
           /\ world.combat.combatants[i].id = "goblin"
           /\ world.combat.combatants[i].temp_defense = 5
           /\ world.combat.combatants[i].hp = 5
           /\ Bare(world.combat.combatants[i])

\* C38: inventories and location item lists hold only references into the
\* registry: every id in the player's inventory and in every location's item
\* list is the id of a registered item.
C38_NoDanglingItemReferences ==
    /\ \A k \in 1..Len(world.player.inventory) :
           world.player.inventory[k] \in DOMAIN world.items
    /\ \A pos \in DOMAIN world.locations :
           \A k \in 1..Len(world.locations[pos].items) :
               world.locations[pos].items[k] \in DOMAIN world.items

\* C39: one turn is in flight at a time and it always completes: every
\* process_input call made in WaitingForInput returns with the state back at
\* WaitingForInput, whether the collaborator answered, failed every retry, or
\* the update could not be applied; outside the retry loop the game is never
\* in Processing or UpdatingWorld.
C39_TurnAlwaysCompletes ==
    /\ [](game.pc # "loop" => (game.pc \in {"idle", "returned"}
                                   /\ game.state = "WaitingForInput"))
    /\ (game.pc = "loop" ~> (game.pc = "returned" /\ game.state = "WaitingForInput"))

\* ------------------------------------------------------------------------
\* Exploration: every operation that moves the player or inserts a location
\* ------------------------------------------------------------------------
\* Dispatcher and generate_and_move_to calls per explored session.
MaxExploreCalls == 2

\* No turn is in flight and the process has not aborted.
AtRest == game.pc \in {"idle", "returned"} /\ last.result # "panic"

\* The quick move of the line console ("/north", ...) and of the terminal UI
\* (arrow keys) in WaitingForInput: onto a location that exists, the player
\* moves and the location becomes visited; else the terminal UI only tells
\* that the area is unexplored (the line console hands "go north" to
\* process_input, which is HandleGameInput).
QuickMove(direction) ==
    /\ AtRest
    /\ game.state = "WaitingForInput"
    /\ LET target_pos == TargetPos(world.current_pos, direction)[1]
       IN  IF target_pos \in DOMAIN world.locations
           THEN /\ world' = [world EXCEPT !.current_pos = target_pos,
                                          !.locations[target_pos].visited = TRUE]
                /\ game' = [game EXCEPT !.last_narrative =
                               "You move " \o direction \o " to "
                                   \o world.locations[target_pos].name \o ".\n"
                                   \o world.locations[target_pos].description]
           ELSE /\ world' = world
                /\ game' = [game EXCEPT !.last_narrative =
                               "The path " \o direction
                                   \o " leads to unexplored territory. Type your action to explore."]
    /\ last' = [op |-> "quick_move", args |-> [direction |-> direction],
                input |-> EmptyObject, result |-> "ok", pos |-> world.current_pos]
    /\ UNCHANGED <<turn_narrative, calls, budget, turn>>

\* Game::generate_and_move_to(target_pos, direction) with the answer gen of
\* generate_location: Err before anything is done when current_pos has no
\* location; else the generated location, or the fallback (the same literal as
\* the dispatcher's), is inserted at target_pos whatever is there, the player
\* is put on it and the state becomes WaitingForInput.
GenerateAndMoveTo(target_pos, direction, gen) ==
    /\ AtRest
    /\ calls < budget
    /\ calls' = calls + 1
    /\ IF world.current_pos \notin DOMAIN world.locations
       THEN /\ world' = world
            /\ game' = game
       ELSE /\ world' = [world EXCEPT
                            !.locations = Put(@, target_pos, NewLocation(gen, target_pos)),
                            !.current_pos = target_pos]
            /\ game' = [game EXCEPT
                           !.state = "WaitingForInput",
                           !.last_narrative =
                               IF gen.ok
                               THEN "You travel " \o direction \o " to "
                                        \o gen.location.name \o ".\n" \o gen.location.description
                               ELSE "You travel " \o direction \o " into the unknown.\n"
                                        \o FallbackLocation(target_pos).description]
    /\ last' = [op |-> "generate_and_move_to",
                args |-> [target_pos |-> target_pos, direction |-> direction],
                input |-> gen,
                result |-> IF world.current_pos \in DOMAIN world.locations THEN "ok" ELSE "err",
                pos |-> world.current_pos]
    /\ UNCHANGED <<turn_narrative, budget, turn>>

\* The passes of the retry loop whose call is answered; a failed call leaves
\* the world as it is and the loop running.
Applies == \E update \in Updates : Attempt([ok |-> TRUE, update |-> update])

InitExplore == InitSession({NewGameWorld, SavedWorld}, MaxExploreCalls)

NextExplore ==
    \/ AtRest /\ \E args \in MoveArgs, gen \in SessionGenerations : MoveTo(args, gen)
    \/ HandleGameInput
    \/ Applies
    \/ \E direction \in Directions : QuickMove(direction)
    \/ \E direction \in Directions, gen \in SessionGenerations :
           GenerateAndMoveTo(TargetPos(world.current_pos, direction)[1], direction, gen)

SpecExplore == InitExplore /\ [][NextExplore]_vars

\* C35: from a world that has a Location at current_pos, every operation that
\* can change the position or the location map (dispatcher move_to, the legacy
\* MoveTo and CreateLocation actions, generate_and_move_to, the quick moves of
\* the line console and of the terminal UI) leaves a Location at current_pos.
C35_PlayerStandsOnALocation ==
    world.current_pos \in DOMAIN world.locations

\* A legacy MoveTo(1, 0) took the player to a coordinate that had no location:
\* the default location was created there and the turn returned.
C35_Witness ==
    /\ game.pc = "returned"
    /\ game.result = "ok"
    /\ game.last_narrative = "You walk east."
    /\ world.current_pos = <<1, 0>>
    /\ world.current_pos \in DOMAIN world.locations
    /\ world.locations[<<1, 0>>].name = "Location (1, 0)"

\* C32: locations are created once per coordinate and never deleted: the set
\* of coordinates that have a Location only grows, and a movement or creation
\* that targets a coordinate which already has a Location does not put the
\* World Generator's product, or any other Location, in its place: name,
\* description, items and actors of every existing Location stay, and a step
\* that takes the player onto an existing Location changes nothing in the map
\* but that Location's visited flag.
C32_LocationsCreatedOnce ==
    [][/\ DOMAIN world.locations \subseteq DOMAIN world'.locations
       /\ \A pos \in DOMAIN world.locations :
              /\ world'.locations[pos].name = world.locations[pos].name
              /\ world'.locations[pos].description = world.locations[pos].description
              /\ world'.locations[pos].items = world.locations[pos].items
              /\ world'.locations[pos].actors = world.locations[pos].actors
       /\ (world'.current_pos # world.current_pos
               /\ world'.current_pos \in DOMAIN world.locations)
              => world'.locations =
                     [world.locations EXCEPT ![world'.current_pos].visited = TRUE]]_vars

\* ------------------------------------------------------------------------
\* The splash screen: Game::handle_splash_input and the keys of the terminal UI
\* ------------------------------------------------------------------------
\* Save files in the saves directory when the game starts.
MaxSaves == 3

SaveNames == {"a.json", "b.json", "c.json"}

\* SaveManager::list_saves: the save files, newest first, none listed twice.
SaveLists ==
    UNION {{l \in [1..n -> SaveNames] : \A i, j \in 1..n : l[i] = l[j] => i = j} :
               n \in 0..MaxSaves}

\* SaveManager::load_save: the world decoded from the file, or an error.
LoadOutcomes == {Err(NewWorld), Ok(NewGameWorld), Ok(SavedWorld)}

\* The process is alive and on the splash screen.
OnSplash == game.state = "SplashScreen" /\ game.pc # "panicked"

\* What a key or an input did, for the record of the last operation.
Recorded(op, input, result) ==
    [op |-> op, args |-> EmptyObject, input |-> input, result |-> result,
     pos |-> world.current_pos]

\* let save = &self.save_list[self.selected_save_index]: the index is checked
\* at run time and the process aborts when it is not below the length.
IndexPanics == game.selected_save_index >= Len(game.save_list)

\* The "load" arm of handle_splash_input with the outcome of load_save.
SplashLoad(loaded) ==
    IF game.save_list = <<>>
    THEN /\ UNCHANGED <<world, game>>
         /\ last' = Recorded("load", loaded, "ok")
    ELSE IF IndexPanics
    THEN /\ world' = world
         /\ game' = [game EXCEPT !.pc = "panicked", !.result = "panic"]
         /\ last' = Recorded("load", loaded, "panic")
    ELSE IF ~loaded.ok
    THEN /\ UNCHANGED <<world, game>>
         /\ last' = Recorded("load", loaded, "err")
    ELSE /\ world' = loaded.world
         /\ game' = [game EXCEPT
                        !.state = "WaitingForInput",
                        !.last_narrative =
                            "Loaded world: " \o game.save_list[game.selected_save_index + 1]
                                \o ". What do you want to do?"]
         /\ last' = Recorded("load", loaded, "ok")

\* Game::process_input in state SplashScreen.
HandleSplashInput(input, loaded) ==
    /\ OnSplash
    /\ CASE input = "new" ->
                /\ game' = [game EXCEPT !.state = "NamingWorld"]
                /\ world' = world
                /\ last' = Recorded(input, EmptyObject, "ok")
         [] input = "load" -> SplashLoad(loaded)
         [] input = "up" ->
                /\ game' = [game EXCEPT !.selected_save_index = IF @ > 0 THEN @ - 1 ELSE @]
                /\ world' = world
                /\ last' = Recorded(input, EmptyObject, "ok")
         [] input = "down" ->
                /\ game' = [game EXCEPT !.selected_save_index =
                               IF @ < Len(game.save_list) THEN @ + 1 ELSE @]
                /\ world' = world
                /\ last' = Recorded(input, EmptyObject, "ok")
         [] OTHER ->
                /\ UNCHANGED <<world, game>>
                /\ last' = Recorded(input, EmptyObject, "ok")
    /\ UNCHANGED <<turn_narrative, calls, budget, turn>>

\* The Enter key of the terminal UI on the splash screen: "load" when the
\* selection is on a save, "new" when it is on the entry behind the last save.
TuiEnter(loaded) ==
    HandleSplashInput(IF game.selected_save_index < Len(game.save_list) THEN "load" ELSE "new",
                      loaded)

\* A number typed at the line console on the splash screen.
CliSelect(idx, loaded) ==
    /\ OnSplash
    /\ IF idx < Len(game.save_list)
       THEN LET selected == [game EXCEPT !.selected_save_index = idx]
            IN  IF ~loaded.ok
                THEN /\ world' = world
                     /\ game' = selected
                     /\ last' = Recorded("load", loaded, "err")
                ELSE /\ world' = loaded.world
                     /\ game' = [selected EXCEPT
                                    !.state = "WaitingForInput",
                                    !.last_narrative =
                                        "Loaded world: " \o game.save_list[idx + 1]
                                            \o ". What do you want to do?"]
                     /\ last' = Recorded("load", loaded, "ok")
       ELSE /\ UNCHANGED <<world, game>>
            /\ last' = Recorded("select", loaded, "ok")
    /\ UNCHANGED <<turn_narrative, calls, budget, turn>>

\* The Delete key of the terminal UI; deleted tells whether delete_save
\* succeeded.  The refreshed list is the old one without the deleted file.
TuiDelete(deleted) ==
    /\ OnSplash
    /\ game.save_list # <<>>
    /\ IF IndexPanics
       THEN /\ game' = [game EXCEPT !.pc = "panicked", !.result = "panic"]
            /\ last' = Recorded("delete", deleted, "panic")
       ELSE IF ~deleted
       THEN /\ game' = game
            /\ last' = Recorded("delete", deleted, "err")
       ELSE LET filename == game.save_list[game.selected_save_index + 1]
                refreshed == SelectSeq(game.save_list, LAMBDA f : f # filename)
            IN  /\ game' = [game EXCEPT
                               !.save_list = refreshed,
                               !.selected_save_index =
                                   IF @ >= Len(refreshed) /\ @ > 0
                                   THEN Len(refreshed) - 1 ELSE @]
                /\ last' = Recorded("delete", deleted, "ok")
    /\ UNCHANGED <<world, turn_narrative, calls, budget, turn>>

\* Game::process_input in state NamingWorld: "back" returns to the splash
\* screen; "enter" with a name typed creates the world and its save.
HandleNamingInput(input) ==
    /\ game.state = "NamingWorld"
    /\ game.pc # "panicked"
    /\ IF input = "back"
       THEN /\ game' = [game EXCEPT !.state = "SplashScreen"]
            /\ world' = world
       ELSE /\ game' = [game EXCEPT !.state = "WaitingForInput",
                                    !.last_narrative =
                                        "Created new world: 'w'. What do you want to do?"]
            /\ world' = NewGameWorld
    /\ last' = Recorded(input, EmptyObject, "ok")
    /\ UNCHANGED <<turn_narrative, calls, budget, turn>>

InitSplash ==
    /\ world = NewWorld
    /\ turn_narrative = None
    /\ calls = 0
    /\ budget = 0
    /\ last = NoCall
    /\ turn = NoTurn
    /\ \E saves \in SaveLists :
           game = [NoGame EXCEPT !.state = "SplashScreen",
                                 !.last_narrative = "Welcome to the Infinite Text Adventure.",
                                 !.save_list = saves]

NextSplash ==
    \/ \E input \in {"new", "load", "up", "down", "x"}, loaded \in LoadOutcomes :
           HandleSplashInput(input, loaded)
    \/ \E loaded \in LoadOutcomes : TuiEnter(loaded)
    \/ \E idx \in 0..MaxSaves, loaded \in LoadOutcomes : CliSelect(idx, loaded)
    \/ \E deleted \in BOOLEAN : TuiDelete(deleted)
    \/ \E input \in {"back", "enter"} : HandleNamingInput(input)

SpecSplash == InitSplash /\ [][NextSplash]_vars

\* C40: on the splash screen, whatever "up", "down", "load" and delete inputs
\* came before, selected_save_index is below the length of save_list whenever
\* the list is indexed with it: by a "load" on a list that is not empty and
\* by the Delete key on a list that is not empty.
C40_SelectionIndexesInBounds ==
    [][(/\ game.state = "SplashScreen" /\ game.pc # "panicked"
        /\ last'.op \in {"load", "delete"}
        /\ game.save_list # <<>>) =>
           game.selected_save_index < Len(game.save_list)]_vars

====
